---- MODULE Spec2Model ----
(***************************************************************************)
(* The 6502 execution engine of rustendo (src/src/cpu.rs), its opcode      *)
(* table (src/src/opcodes.rs) and the host operations that drive it.       *)
(*                                                                         *)
(* The engine's fields are the variables of the same name.  `memory` is    *)
(* the engine's own byte array (the inherent mem_read / mem_write of CPU   *)
(* index it directly); it is kept as the function of its non-zero cells,   *)
(* every other cell holding the 0 that CPU::new writes.  One iteration of  *)
(* CPU::run is the sequence Callback, Fetch, Dispatch, Advance; `loc` is   *)
(* the position of the run loop.  A Rust panic (index out of bounds,       *)
(* todo!(), arithmetic overflow in a build with overflow checks) ends the  *)
(* process: loc = "panicked".                                              *)
(*                                                                         *)
(* The bus (src/src/bus.rs) is the engine's field CPU.bus: `cpu_vram` is   *)
(* its RAM.  The cartridge loader (src/src/rom.rs) is the operator         *)
(* Rom_new.  The specifications share variables and actions: Spec (control *)
(* flow, stack, reset), AluSpec (arithmetic, compare, push and pop, shifts *)
(* and rotates), AddrSpec (addressing through page zero, store then load), *)
(* BusSpec (the bus), InstrSpec (every opcode of the table), LoaderSpec    *)
(* (load and reset), RomSpec (the cartridge loader) and StackSpec (pushes   *)
(* and pops by themselves).                                                *)
(***************************************************************************)
EXTENDS Integers, Sequences, FiniteSets, TLC

VARIABLES
    program_counter,      \* CPU.program_counter : u16
    register_a,           \* CPU.register_a : u8
    register_x,           \* CPU.register_x : u8
    register_y,           \* CPU.register_y : u8
    status,               \* CPU.status : Flags, as its bits
    stack_pointer,        \* CPU.stack_pointer : u8
    memory,               \* CPU.memory : [u8; 0xFFFF], non-zero cells only
    loc,                  \* position of the host / run loop
    code,                 \* run: the opcode byte fetched in this iteration
    old_program_counter,  \* run: the counter recorded before dispatch
    steps,                \* number of opcode fetches so far
    runs,                 \* number of calls of run so far
    loaded,               \* the host has loaded its program
    last,                 \* the operation that produced this state
    pre,                  \* the engine as it was when `last` began (per instruction: at the fetch)
    prev,                 \* `pre` of the instruction executed before the current one
    cpu_vram,             \* CPU.bus.cpu_vram : [u8; 2048], non-zero cells only
    bus_op,               \* the last access made through the bus: its address, byte and the RAM before it
    raw,                  \* the file last handed to Rom::new
    rom,                  \* what Rom::new made of it
    lifo                  \* a series of pushes and pops: the stack pointer it began with, its depth, the depth pops began at, the byte last popped

vars == <<program_counter, register_a, register_x, register_y, status,
          stack_pointer, memory, loc, code, old_program_counter, steps,
          runs, loaded, last, pre, prev, cpu_vram, bus_op, raw, rom, lifo>>

\* the bus and the record of its last access
bus_vars == <<cpu_vram, bus_op>>

\* the cartridge file and the loader's result
rom_vars == <<raw, rom>>

----------------------------------------------------------------------------
(* Bounds of the model *)

\* opcode fetches explored per session
MaxSteps == 6

\* calls of run explored per session
MaxRuns == 1

----------------------------------------------------------------------------
(* Machine arithmetic *)

U8 == 256
U16 == 65536

Wrap8(n) == n % U8
Wrap16(n) == n % U16

\* bit i of a machine word
Bit(v, i) == (v \div (2 ^ i)) % 2

\* the word whose bit i is f[i], for the 16 bits of a u16
FromBits(f) ==
    f[0] + 2 * f[1] + 4 * f[2] + 8 * f[3] + 16 * f[4] + 32 * f[5] + 64 * f[6]
    + 128 * f[7] + 256 * f[8] + 512 * f[9] + 1024 * f[10] + 2048 * f[11]
    + 4096 * f[12] + 8192 * f[13] + 16384 * f[14] + 32768 * f[15]

BitAnd(a, b) == FromBits([i \in 0..15 |-> Bit(a, i) * Bit(b, i)])

BitOr(a, b) == FromBits([i \in 0..15 |-> IF Bit(a, i) = 1 \/ Bit(b, i) = 1 THEN 1 ELSE 0])

BitXor(a, b) == FromBits([i \in 0..15 |-> (Bit(a, i) + Bit(b, i)) % 2])

\* !v on a u8
Not8(v) == 255 - v

\* v as i8 as i16 as u16
SignExtend(v) == IF v >= 128 THEN v + (U16 - U8) ELSE v

----------------------------------------------------------------------------
(* Flags: the bit positions of the flag register (section 4.1) *)

CARRY == 1
ZERO == 2
INTERRUPT_DISABLE == 4
DECIMAL_MODE == 8
BREAK == 16
UNUSED == 32
OVERFLOW == 64
NEGATIVE == 128

\* the union of the eight named flags
FlagsAll == CARRY + ZERO + INTERRUPT_DISABLE + DECIMAL_MODE + BREAK + UNUSED + OVERFLOW + NEGATIVE

\* Flags::empty()
FlagsEmpty == 0

\* Flags::from_bits_truncate: bits that name no flag are dropped
from_bits_truncate(bits) == BitAnd(bits, FlagsAll)

\* Flags::contains / insert / remove / set
contains(s, f) == BitAnd(s, f) = f
insert(s, f) == BitOr(s, f)
remove(s, f) == BitAnd(s, Not8(f))
set(s, f, b) == IF b THEN insert(s, f) ELSE remove(s, f)

----------------------------------------------------------------------------
(* The opcode table *)

OpCode(c, name, len, addr_mode) ==
    [code |-> c, name |-> name, len |-> len, addr_mode |-> addr_mode]

OPS_CODES ==
  <<
    OpCode(\hA9, "LDA", 2, "Immediate"),
    OpCode(\hA5, "LDA", 2, "ZeroPage"),
    OpCode(\hB5, "LDA", 2, "ZeroPage_X"),
    OpCode(\hAD, "LDA", 3, "Absolute"),
    OpCode(\hBD, "LDA", 3, "Absolute_X"),
    OpCode(\hB9, "LDA", 3, "Absolute_Y"),
    OpCode(\hA1, "LDA", 2, "Indirect_X"),
    OpCode(\hB1, "LDA", 2, "Indirect_Y"),
    OpCode(\hA2, "LDX", 2, "Immediate"),
    OpCode(\hA6, "LDX", 2, "ZeroPage"),
    OpCode(\hB6, "LDX", 2, "ZeroPage_Y"),
    OpCode(\hAE, "LDX", 3, "Absolute"),
    OpCode(\hBE, "LDX", 3, "Absolute_Y"),
    OpCode(\hA0, "LDY", 2, "Immediate"),
    OpCode(\hA4, "LDY", 2, "ZeroPage"),
    OpCode(\hB4, "LDY", 2, "ZeroPage_X"),
    OpCode(\hAC, "LDY", 3, "Absolute"),
    OpCode(\hBC, "LDY", 3, "Absolute_X"),
    OpCode(\h85, "STA", 2, "ZeroPage"),
    OpCode(\h95, "STA", 2, "ZeroPage_X"),
    OpCode(\h8D, "STA", 3, "Absolute"),
    OpCode(\h9D, "STA", 3, "Absolute_X"),
    OpCode(\h99, "STA", 3, "Absolute_Y"),
    OpCode(\h81, "STA", 2, "Indirect_X"),
    OpCode(\h91, "STA", 2, "Indirect_Y"),
    OpCode(\h86, "STX", 2, "ZeroPage"),
    OpCode(\h96, "STX", 2, "ZeroPage_Y"),
    OpCode(\h8E, "STX", 3, "Absolute"),
    OpCode(\h84, "STY", 2, "ZeroPage"),
    OpCode(\h94, "STY", 2, "ZeroPage_X"),
    OpCode(\h8C, "STY", 3, "Absolute"),
    OpCode(\h29, "AND", 2, "Immediate"),
    OpCode(\h25, "AND", 2, "ZeroPage"),
    OpCode(\h35, "AND", 2, "ZeroPage_X"),
    OpCode(\h2D, "AND", 3, "Absolute"),
    OpCode(\h3D, "AND", 3, "Absolute_X"),
    OpCode(\h39, "AND", 3, "Absolute_Y"),
    OpCode(\h21, "AND", 2, "Indirect_X"),
    OpCode(\h31, "AND", 2, "Indirect_Y"),
    OpCode(\h09, "ORA", 2, "Immediate"),
    OpCode(\h05, "ORA", 2, "ZeroPage"),
    OpCode(\h15, "ORA", 2, "ZeroPage_X"),
    OpCode(\h0D, "ORA", 3, "Absolute"),
    OpCode(\h1D, "ORA", 3, "Absolute_X"),
    OpCode(\h19, "ORA", 3, "Absolute_Y"),
    OpCode(\h01, "ORA", 2, "Indirect_X"),
    OpCode(\h11, "ORA", 2, "Indirect_Y"),
    OpCode(\h49, "EOR", 2, "Immediate"),
    OpCode(\h45, "EOR", 2, "ZeroPage"),
    OpCode(\h55, "EOR", 2, "ZeroPage_X"),
    OpCode(\h4D, "EOR", 3, "Absolute"),
    OpCode(\h5D, "EOR", 3, "Absolute_X"),
    OpCode(\h59, "EOR", 3, "Absolute_Y"),
    OpCode(\h41, "EOR", 2, "Indirect_X"),
    OpCode(\h51, "EOR", 2, "Indirect_Y"),
    OpCode(\h24, "BIT", 2, "ZeroPage"),
    OpCode(\h2C, "BIT", 3, "Absolute"),
    OpCode(\hC9, "CMP", 2, "Immediate"),
    OpCode(\hC5, "CMP", 2, "ZeroPage"),
    OpCode(\hD5, "CMP", 2, "ZeroPage_X"),
    OpCode(\hCD, "CMP", 3, "Absolute"),
    OpCode(\hDD, "CMP", 3, "Absolute_X"),
    OpCode(\hD9, "CMP", 3, "Absolute_Y"),
    OpCode(\hC1, "CMP", 2, "Indirect_X"),
    OpCode(\hD1, "CMP", 2, "Indirect_Y"),
    OpCode(\hC0, "CPY", 2, "Immediate"),
    OpCode(\hC4, "CPY", 2, "ZeroPage"),
    OpCode(\hCC, "CPY", 3, "Absolute"),
    OpCode(\hE0, "CPX", 2, "Immediate"),
    OpCode(\hE4, "CPX", 2, "ZeroPage"),
    OpCode(\hEC, "CPX", 3, "Absolute"),
    OpCode(\h69, "ADC", 2, "Immediate"),
    OpCode(\h65, "ADC", 2, "ZeroPage"),
    OpCode(\h75, "ADC", 2, "ZeroPage_X"),
    OpCode(\h6D, "ADC", 3, "Absolute"),
    OpCode(\h7D, "ADC", 3, "Absolute_X"),
    OpCode(\h79, "ADC", 3, "Absolute_Y"),
    OpCode(\h61, "ADC", 2, "Indirect_X"),
    OpCode(\h71, "ADC", 2, "Indirect_Y"),
    OpCode(\hE9, "SBC", 2, "Immediate"),
    OpCode(\hE5, "SBC", 2, "ZeroPage"),
    OpCode(\hF5, "SBC", 2, "ZeroPage_X"),
    OpCode(\hED, "SBC", 3, "Absolute"),
    OpCode(\hFD, "SBC", 3, "Absolute_X"),
    OpCode(\hF9, "SBC", 3, "Absolute_Y"),
    OpCode(\hE1, "SBC", 2, "Indirect_X"),
    OpCode(\hF1, "SBC", 2, "Indirect_Y"),
    OpCode(\hD0, "BNE", 2, "Implied"),
    OpCode(\h70, "BVS", 2, "Implied"),
    OpCode(\h50, "BVC", 2, "Implied"),
    OpCode(\h30, "BMI", 2, "Implied"),
    OpCode(\hF0, "BEQ", 2, "Implied"),
    OpCode(\hB0, "BCS", 2, "Implied"),
    OpCode(\h90, "BCC", 2, "Implied"),
    OpCode(\h10, "BPL", 2, "Implied"),
    OpCode(\h0A, "ASL", 1, "Implied"),
    OpCode(\h06, "ASL", 2, "ZeroPage"),
    OpCode(\h16, "ASL", 2, "ZeroPage_X"),
    OpCode(\h0E, "ASL", 3, "Absolute"),
    OpCode(\h1E, "ASL", 3, "Absolute_X"),
    OpCode(\h2A, "ROL", 1, "Implied"),
    OpCode(\h26, "ROL", 2, "ZeroPage"),
    OpCode(\h36, "ROL", 2, "ZeroPage_X"),
    OpCode(\h2E, "ROL", 3, "Absolute"),
    OpCode(\h3E, "ROL", 3, "Absolute_X"),
    OpCode(\h6A, "ROR", 1, "Implied"),
    OpCode(\h66, "ROR", 2, "ZeroPage"),
    OpCode(\h76, "ROR", 2, "ZeroPage_X"),
    OpCode(\h6E, "ROR", 3, "Absolute"),
    OpCode(\h7E, "ROR", 3, "Absolute_X"),
    OpCode(\h4C, "JMP", 3, "Implied"),
    OpCode(\h6C, "JMP", 3, "Implied"),
    OpCode(\h20, "JSR", 3, "Absolute"),
    OpCode(\h60, "RTS", 1, "Implied"),
    OpCode(\hAA, "TAX", 1, "Implied"),
    OpCode(\hA8, "TAY", 1, "Implied"),
    OpCode(\hBA, "TSX", 1, "Implied"),
    OpCode(\h8A, "TXA", 1, "Implied"),
    OpCode(\h9A, "TXS", 1, "Implied"),
    OpCode(\h98, "TYA", 1, "Implied"),
    OpCode(\hE8, "INX", 1, "Implied"),
    OpCode(\hC8, "INY", 1, "Implied"),
    OpCode(\hCA, "DEX", 1, "Implied"),
    OpCode(\h88, "DEY", 1, "Implied"),
    OpCode(\hEA, "NOP", 1, "Implied"),
    OpCode(\h48, "PHA", 1, "Implied"),
    OpCode(\h68, "PLA", 1, "Implied"),
    OpCode(\h08, "PHP", 1, "Implied"),
    OpCode(\h28, "PLP", 1, "Implied"),
    OpCode(\hD8, "CLD", 1, "Implied"),
    OpCode(\h58, "CLI", 1, "Implied"),
    OpCode(\hB8, "CLV", 1, "Implied"),
    OpCode(\h18, "CLC", 1, "Implied"),
    OpCode(\h38, "SEC", 1, "Implied"),
    OpCode(\h78, "SEI", 1, "Implied"),
    OpCode(\hF8, "SED", 1, "Implied"),
    OpCode(\h40, "RTI", 1, "Implied"),
    OpCode(\hC6, "DEC", 2, "ZeroPage"),
    OpCode(\hD6, "DEC", 2, "ZeroPage_X"),
    OpCode(\hCE, "DEC", 3, "Absolute"),
    OpCode(\hDE, "DEC", 3, "Absolute_X"),
    OpCode(\hE6, "INC", 2, "ZeroPage"),
    OpCode(\hF6, "INC", 2, "ZeroPage_X"),
    OpCode(\hEE, "INC", 3, "Absolute"),
    OpCode(\hFE, "INC", 3, "Absolute_X"),
    OpCode(\h4A, "LSR", 1, "Implied"),
    OpCode(\h46, "LSR", 2, "ZeroPage"),
    OpCode(\h56, "LSR", 2, "ZeroPage_X"),
    OpCode(\h4E, "LSR", 3, "Absolute"),
    OpCode(\h5E, "LSR", 3, "Absolute_X"),
    OpCode(\h00, "BRK", 1, "Implied"),
    OpCode(\hC7, "*DCP", 2, "ZeroPage"),
    OpCode(\hD7, "*DCP", 2, "ZeroPage_X"),
    OpCode(\hCF, "*DCP", 3, "Absolute"),
    OpCode(\hDF, "*DCP", 3, "Absolute_X"),
    OpCode(\hDB, "*DCP", 3, "Absolute_Y"),
    OpCode(\hD3, "*DCP", 2, "Indirect_Y"),
    OpCode(\hC3, "*DCP", 2, "Indirect_X"),
    OpCode(\h27, "*RLA", 2, "ZeroPage"),
    OpCode(\h37, "*RLA", 2, "ZeroPage_X"),
    OpCode(\h2F, "*RLA", 3, "Absolute"),
    OpCode(\h3F, "*RLA", 3, "Absolute_X"),
    OpCode(\h3B, "*RLA", 3, "Absolute_Y"),
    OpCode(\h33, "*RLA", 2, "Indirect_Y"),
    OpCode(\h23, "*RLA", 2, "Indirect_X"),
    OpCode(\h07, "*SLO", 2, "ZeroPage"),
    OpCode(\h17, "*SLO", 2, "ZeroPage_X"),
    OpCode(\h0F, "*SLO", 3, "Absolute"),
    OpCode(\h1F, "*SLO", 3, "Absolute_X"),
    OpCode(\h1B, "*SLO", 3, "Absolute_Y"),
    OpCode(\h03, "*SLO", 2, "Indirect_X"),
    OpCode(\h13, "*SLO", 2, "Indirect_Y"),
    OpCode(\h47, "*SRE", 2, "ZeroPage"),
    OpCode(\h57, "*SRE", 2, "ZeroPage_X"),
    OpCode(\h4F, "*SRE", 3, "Absolute"),
    OpCode(\h5F, "*SRE", 3, "Absolute_X"),
    OpCode(\h5B, "*SRE", 3, "Absolute_Y"),
    OpCode(\h43, "*SRE", 2, "Indirect_X"),
    OpCode(\h53, "*SRE", 2, "Indirect_Y"),
    OpCode(\h80, "*NOP", 2, "Immediate"),
    OpCode(\h82, "*NOP", 2, "Immediate"),
    OpCode(\h89, "*NOP", 2, "Immediate"),
    OpCode(\hC2, "*NOP", 2, "Immediate"),
    OpCode(\hE2, "*NOP", 2, "Immediate"),
    OpCode(\hCB, "*AXS", 2, "Immediate"),
    OpCode(\h6B, "*ARR", 2, "Immediate"),
    OpCode(\hEB, "*SBC", 2, "Immediate"),
    OpCode(\h0B, "*ANC", 2, "Immediate"),
    OpCode(\h2B, "*ANC", 2, "Immediate"),
    OpCode(\h4B, "*ALR", 2, "Immediate"),
    OpCode(\h04, "*NOP", 2, "ZeroPage"),
    OpCode(\h44, "*NOP", 2, "ZeroPage"),
    OpCode(\h64, "*NOP", 2, "ZeroPage"),
    OpCode(\h14, "*NOP", 2, "ZeroPage_X"),
    OpCode(\h34, "*NOP", 2, "ZeroPage_X"),
    OpCode(\h54, "*NOP", 2, "ZeroPage_X"),
    OpCode(\h74, "*NOP", 2, "ZeroPage_X"),
    OpCode(\hD4, "*NOP", 2, "ZeroPage_X"),
    OpCode(\hF4, "*NOP", 2, "ZeroPage_X"),
    OpCode(\h0C, "*NOP", 3, "Absolute"),
    OpCode(\h1C, "*NOP", 3, "Absolute_X"),
    OpCode(\h3C, "*NOP", 3, "Absolute_X"),
    OpCode(\h5C, "*NOP", 3, "Absolute_X"),
    OpCode(\h7C, "*NOP", 3, "Absolute_X"),
    OpCode(\hDC, "*NOP", 3, "Absolute_X"),
    OpCode(\hFC, "*NOP", 3, "Absolute_X"),
    OpCode(\h67, "*RRA", 2, "ZeroPage"),
    OpCode(\h77, "*RRA", 2, "ZeroPage_X"),
    OpCode(\h6F, "*RRA", 3, "Absolute"),
    OpCode(\h7F, "*RRA", 3, "Absolute_X"),
    OpCode(\h7B, "*RRA", 3, "Absolute_Y"),
    OpCode(\h63, "*RRA", 2, "Indirect_X"),
    OpCode(\h73, "*RRA", 2, "Indirect_Y"),
    OpCode(\hE7, "*ISB", 2, "ZeroPage"),
    OpCode(\hF7, "*ISB", 2, "ZeroPage_X"),
    OpCode(\hEF, "*ISB", 3, "Absolute"),
    OpCode(\hFF, "*ISB", 3, "Absolute_X"),
    OpCode(\hFB, "*ISB", 3, "Absolute_Y"),
    OpCode(\hE3, "*ISB", 2, "Indirect_X"),
    OpCode(\hF3, "*ISB", 2, "Indirect_Y"),
    OpCode(\h02, "*NOP", 1, "Implied"),
    OpCode(\h12, "*NOP", 1, "Implied"),
    OpCode(\h22, "*NOP", 1, "Implied"),
    OpCode(\h32, "*NOP", 1, "Implied"),
    OpCode(\h42, "*NOP", 1, "Implied"),
    OpCode(\h52, "*NOP", 1, "Implied"),
    OpCode(\h62, "*NOP", 1, "Implied"),
    OpCode(\h72, "*NOP", 1, "Implied"),
    OpCode(\h92, "*NOP", 1, "Implied"),
    OpCode(\hB2, "*NOP", 1, "Implied"),
    OpCode(\hD2, "*NOP", 1, "Implied"),
    OpCode(\hF2, "*NOP", 1, "Implied"),
    OpCode(\h1A, "*NOP", 1, "Implied"),
    OpCode(\h3A, "*NOP", 1, "Implied"),
    OpCode(\h5A, "*NOP", 1, "Implied"),
    OpCode(\h7A, "*NOP", 1, "Implied"),
    OpCode(\hDA, "*NOP", 1, "Implied"),
    OpCode(\hFA, "*NOP", 1, "Implied"),
    OpCode(\hAB, "*LXA", 2, "Immediate"),
    OpCode(\h8B, "*XAA", 2, "Immediate"),
    OpCode(\hBB, "*LAS", 3, "Absolute_Y"),
    OpCode(\h9B, "*TAS", 3, "Absolute_Y"),
    OpCode(\h93, "*AHX", 2, "Indirect_Y"),
    OpCode(\h9F, "*AHX", 3, "Absolute_Y"),
    OpCode(\h9E, "*SHX", 3, "Absolute_Y"),
    OpCode(\h9C, "*SHY", 3, "Absolute_X"),
    OpCode(\hA7, "*LAX", 2, "ZeroPage"),
    OpCode(\hB7, "*LAX", 2, "ZeroPage_Y"),
    OpCode(\hAF, "*LAX", 3, "Absolute"),
    OpCode(\hBF, "*LAX", 3, "Absolute_Y"),
    OpCode(\hA3, "*LAX", 2, "Indirect_X"),
    OpCode(\hB3, "*LAX", 2, "Indirect_Y"),
    OpCode(\h87, "*SAX", 2, "ZeroPage"),
    OpCode(\h97, "*SAX", 2, "ZeroPage_Y"),
    OpCode(\h8F, "*SAX", 3, "Absolute"),
    OpCode(\h83, "*SAX", 2, "Indirect_X")
  >>

\* HashMap<u8, OpCode> collected from OPS_CODES: the last entry of a code wins
OPS_CODES_MAP ==
    [c \in {OPS_CODES[i].code : i \in DOMAIN OPS_CODES} |->
        LET i == CHOOSE j \in DOMAIN OPS_CODES :
                    /\ OPS_CODES[j].code = c
                    /\ \A k \in DOMAIN OPS_CODES : OPS_CODES[k].code = c => k <= j
        IN OPS_CODES[i]]

----------------------------------------------------------------------------
(* The engine as a value: the handlers below map one to the next.  `fault` *)
(* records that the handler panicked on the way.                           *)

Self ==
    [pc |-> program_counter, a |-> register_a, x |-> register_x,
     y |-> register_y, status |-> status, sp |-> stack_pointer,
     memory |-> memory, fault |-> FALSE]

\* memory: [u8; 0xFFFF] has 0xFFFF cells, indices 0 .. 0xFFFE
MEMORY_LEN == \hFFFF

OutOfBounds(addr) == addr >= MEMORY_LEN

Fail(c, f) == [c EXCEPT !.fault = @ \/ f]

\* self.memory[addr as usize]
Cell(mem, addr) == IF addr \in DOMAIN mem THEN mem[addr] ELSE 0

\* CPU::mem_read (inherent): the value and whether the index panics
mem_read(c, addr) == [val |-> Cell(c.memory, addr), fault |-> OutOfBounds(addr)]

\* CPU::mem_write (inherent)
mem_write(c, addr, value) ==
    IF OutOfBounds(addr) THEN Fail(c, TRUE)
    ELSE [c EXCEPT !.memory =
            [k \in (IF value = 0 THEN DOMAIN @ \ {addr} ELSE DOMAIN @ \cup {addr}) |->
                IF k = addr THEN value ELSE @[k]]]

\* CPU::mem_read_u16 (inherent): addr + 1 is reached only when addr is in bounds
mem_read_u16(c, addr) ==
    LET low == mem_read(c, addr)
        high == mem_read(c, addr + 1)
    IN [val |-> high.val * U8 + low.val, fault |-> low.fault \/ high.fault]

\* CPU::mem_write_u16 (inherent)
mem_write_u16(c, addr, data) ==
    LET low == data % U8
        high == data \div U8
    IN mem_write(mem_write(c, addr, low), addr + 1, high)

\* CPU::read_zp_16
read_zp_16(c, addr) ==
    LET low == mem_read(c, addr)
        high == mem_read(c, Wrap16(addr + 1))
    IN [val |-> high.val * U8 + low.val, fault |-> low.fault \/ high.fault]

\* get_effective_addr, as it would be if the zero-page index carried into page one
get_effective_addr_page_crossing(c, addressing_mode) ==
    CASE addressing_mode = "Immediate" -> [val |-> c.pc, fault |-> FALSE]
      [] addressing_mode = "Absolute" -> mem_read_u16(c, c.pc)
      [] addressing_mode = "ZeroPage" -> mem_read(c, c.pc)
      [] addressing_mode = "ZeroPage_X" ->
            LET base == mem_read(c, c.pc)
            IN [val |-> base.val + c.x, fault |-> base.fault]
      [] addressing_mode = "ZeroPage_Y" ->
            LET base == mem_read(c, c.pc)
            IN [val |-> base.val + c.y, fault |-> base.fault]
      [] addressing_mode = "Absolute_X" ->
            LET base == mem_read_u16(c, c.pc)
            IN [val |-> Wrap16(base.val + c.x), fault |-> base.fault]
      [] addressing_mode = "Absolute_Y" ->
            LET base == mem_read_u16(c, c.pc)
            IN [val |-> Wrap16(base.val + c.y), fault |-> base.fault]
      [] addressing_mode = "Indirect_X" ->
            LET base == mem_read(c, c.pc)
                pointer == Wrap8(base.val + c.x)
                target == read_zp_16(c, pointer)
            IN [val |-> target.val, fault |-> base.fault \/ target.fault]
      [] addressing_mode = "Indirect_Y" ->
            LET base == mem_read(c, c.pc)
                pointer == read_zp_16(c, base.val)
            IN [val |-> Wrap16(pointer.val + c.y), fault |-> base.fault \/ pointer.fault]
      [] OTHER -> [val |-> 0, fault |-> FALSE]

\* CPU::get_effective_addr: the address and whether resolving it panics
get_effective_addr(c, addressing_mode) ==
    CASE addressing_mode = "Immediate" -> [val |-> c.pc, fault |-> FALSE]
      [] addressing_mode = "Absolute" -> mem_read_u16(c, c.pc)
      [] addressing_mode = "ZeroPage" -> mem_read(c, c.pc)
      [] addressing_mode = "ZeroPage_X" ->
            LET base == mem_read(c, c.pc)
            IN [val |-> Wrap8(base.val + c.x), fault |-> base.fault]
      [] addressing_mode = "ZeroPage_Y" ->
            LET base == mem_read(c, c.pc)
            IN [val |-> Wrap8(base.val + c.y), fault |-> base.fault]
      [] addressing_mode = "Absolute_X" ->
            LET base == mem_read_u16(c, c.pc)
            IN [val |-> Wrap16(base.val + c.x), fault |-> base.fault]
      [] addressing_mode = "Absolute_Y" ->
            LET base == mem_read_u16(c, c.pc)
            IN [val |-> Wrap16(base.val + c.y), fault |-> base.fault]
      [] addressing_mode = "Indirect_X" ->
            LET base == mem_read(c, c.pc)
                pointer == Wrap8(base.val + c.x)
                target == read_zp_16(c, pointer)
            IN [val |-> target.val, fault |-> base.fault \/ target.fault]
      [] addressing_mode = "Indirect_Y" ->
            LET base == mem_read(c, c.pc)
                pointer == read_zp_16(c, base.val)
            IN [val |-> Wrap16(pointer.val + c.y), fault |-> base.fault \/ pointer.fault]
      [] OTHER -> [val |-> 0, fault |-> FALSE]

----------------------------------------------------------------------------
(* The bus (src/src/bus.rs): 2 KB of RAM seen four times in 0x0000..0x1FFF. *)
(* The engine owns one (CPU.bus) and reaches it through `impl Mem for CPU`. *)

RAM_START == \h0000
RAM_MIRROR_END == \h1FFF
PPU_REGISTERS_START == \h2000
PPU_REGISTERS_MIRROR_END == \h3FFF

\* keep low 11 bits
RAM_MIRROR_MASK == \h07FF

\* Bus::mem_read without the mirror mask
Bus_mem_read_unmasked(vram, addr) ==
    CASE addr \in RAM_START..RAM_MIRROR_END ->
            [val |-> Cell(vram, addr), fault |-> FALSE]
      [] addr \in PPU_REGISTERS_START..PPU_REGISTERS_MIRROR_END ->
            [val |-> 0, fault |-> TRUE]
      [] OTHER -> [val |-> 0, fault |-> FALSE]

\* Bus::mem_read: the byte and whether the arm panics (todo!() in the PPU range)
Bus_mem_read(vram, addr) ==
    CASE addr \in RAM_START..RAM_MIRROR_END ->
            LET mirrored == BitAnd(addr, RAM_MIRROR_MASK)
            IN [val |-> Cell(vram, mirrored), fault |-> FALSE]
      [] addr \in PPU_REGISTERS_START..PPU_REGISTERS_MIRROR_END ->
            [val |-> 0, fault |-> TRUE]
      [] OTHER -> [val |-> 0, fault |-> FALSE]

\* Bus::mem_write, as it would be if the addresses above the PPU registers
\* were images of the RAM too
Bus_mem_write_mirroring_all(vram, addr, data) ==
    CASE addr \in PPU_REGISTERS_START..PPU_REGISTERS_MIRROR_END ->
            [vram |-> vram, fault |-> TRUE]
      [] OTHER ->
            LET mirrored == BitAnd(addr, RAM_MIRROR_MASK)
            IN [vram |-> [k \in (IF data = 0 THEN DOMAIN vram \ {mirrored}
                                            ELSE DOMAIN vram \cup {mirrored}) |->
                              IF k = mirrored THEN data ELSE vram[k]],
                fault |-> FALSE]

\* Bus::mem_write: the RAM afterwards and whether the arm panics
Bus_mem_write(vram, addr, data) ==
    CASE addr \in RAM_START..RAM_MIRROR_END ->
            LET mirrored == BitAnd(addr, RAM_MIRROR_MASK)
            IN [vram |-> [k \in (IF data = 0 THEN DOMAIN vram \ {mirrored}
                                            ELSE DOMAIN vram \cup {mirrored}) |->
                              IF k = mirrored THEN data ELSE vram[k]],
                fault |-> FALSE]
      [] addr \in PPU_REGISTERS_START..PPU_REGISTERS_MIRROR_END ->
            [vram |-> vram, fault |-> TRUE]
      [] OTHER -> [vram |-> vram, fault |-> FALSE]

----------------------------------------------------------------------------
(* Instruction handlers *)

update_zero_and_negative_flag(c, value) ==
    [c EXCEPT !.status = set(set(@, ZERO, value = 0), NEGATIVE, BitAnd(value, \h80) # 0)]

\* the operand of a reading instruction: resolve, then read
Operand(c, addressing_mode) ==
    LET addr == get_effective_addr(c, addressing_mode)
        value == mem_read(c, addr.val)
    IN [addr |-> addr.val, val |-> value.val, fault |-> addr.fault \/ value.fault]

lda(c, addressing_mode) ==
    LET m == Operand(c, addressing_mode)
    IN Fail(update_zero_and_negative_flag([c EXCEPT !.a = m.val], m.val), m.fault)

ldy(c, addressing_mode) ==
    LET m == Operand(c, addressing_mode)
    IN Fail(update_zero_and_negative_flag([c EXCEPT !.y = m.val], m.val), m.fault)

ldx(c, addressing_mode) ==
    LET m == Operand(c, addressing_mode)
    IN Fail(update_zero_and_negative_flag([c EXCEPT !.x = m.val], m.val), m.fault)

\* sta, as it would be if resolving the address moved the counter past the
\* operand byte it read
sta_advancing(c, addressing_mode) ==
    LET addr == get_effective_addr(c, addressing_mode)
    IN Fail(mem_write([c EXCEPT !.pc = Wrap16(c.pc + 1)], addr.val, c.a), addr.fault)

sta(c, addressing_mode) ==
    LET addr == get_effective_addr(c, addressing_mode)
    IN Fail(mem_write(c, addr.val, c.a), addr.fault)

stx(c, addressing_mode) ==
    LET addr == get_effective_addr(c, addressing_mode)
    IN Fail(mem_write(c, addr.val, c.x), addr.fault)

sty(c, addressing_mode) ==
    LET addr == get_effective_addr(c, addressing_mode)
    IN Fail(mem_write(c, addr.val, c.y), addr.fault)

tax(c) == update_zero_and_negative_flag([c EXCEPT !.x = c.a], c.a)

txa(c) == update_zero_and_negative_flag([c EXCEPT !.a = c.x], c.x)

tay(c) == update_zero_and_negative_flag([c EXCEPT !.y = c.a], c.a)

tya(c) == update_zero_and_negative_flag([c EXCEPT !.a = c.y], c.y)

inx(c) == update_zero_and_negative_flag([c EXCEPT !.x = Wrap8(c.x + 1)], Wrap8(c.x + 1))

iny(c) == update_zero_and_negative_flag([c EXCEPT !.y = Wrap8(c.y + 1)], Wrap8(c.y + 1))

dey(c) == update_zero_and_negative_flag([c EXCEPT !.y = Wrap8(c.y + 255)], Wrap8(c.y + 255))

dex(c) == update_zero_and_negative_flag([c EXCEPT !.x = Wrap8(c.x + 255)], Wrap8(c.x + 255))

and(c, addressing_mode) ==
    LET m == Operand(c, addressing_mode)
        r == BitAnd(c.a, m.val)
    IN Fail(update_zero_and_negative_flag([c EXCEPT !.a = r], r), m.fault)

ora(c, addressing_mode) ==
    LET m == Operand(c, addressing_mode)
        r == BitOr(c.a, m.val)
    IN Fail(update_zero_and_negative_flag([c EXCEPT !.a = r], r), m.fault)

eor(c, addressing_mode) ==
    LET m == Operand(c, addressing_mode)
        r == BitXor(c.a, m.val)
    IN Fail(update_zero_and_negative_flag([c EXCEPT !.a = r], r), m.fault)

bit(c, addressing_mode) ==
    LET m == Operand(c, addressing_mode)
        and_ == BitAnd(m.val, c.a)
        s1 == IF and_ = 0 THEN insert(c.status, ZERO) ELSE remove(c.status, ZERO)
        s2 == set(s1, OVERFLOW, BitAnd(m.val, \h40) # 0)
        s3 == set(s2, NEGATIVE, BitAnd(m.val, \h80) # 0)
    IN Fail([c EXCEPT !.status = s3], m.fault)

\* compare, as it would be if it subtracted the register from the operand
compare_reversed(c, addressing_mode, register) ==
    LET m == Operand(c, addressing_mode)
        s1 == IF register >= m.val THEN insert(c.status, CARRY) ELSE remove(c.status, CARRY)
        result == Wrap8(m.val + U8 - register)
    IN Fail(update_zero_and_negative_flag([c EXCEPT !.status = s1], result), m.fault)

\* the body shared by cmp, cpx and cpy, on the register they compare
compare(c, addressing_mode, register) ==
    LET m == Operand(c, addressing_mode)
        s1 == IF register >= m.val THEN insert(c.status, CARRY) ELSE remove(c.status, CARRY)
        result == Wrap8(register + U8 - m.val)
    IN Fail(update_zero_and_negative_flag([c EXCEPT !.status = s1], result), m.fault)

cmp(c, addressing_mode) == compare(c, addressing_mode, c.a)

cpx(c, addressing_mode) == compare(c, addressing_mode, c.x)

cpy(c, addressing_mode) == compare(c, addressing_mode, c.y)

\* add_to_register_a, as it would be if it ignored the incoming carry
add_to_register_a_without_carry(c, value) ==
    LET sum == c.a + value
        s1 == IF sum > \hFF THEN insert(c.status, CARRY) ELSE remove(c.status, CARRY)
        result == Wrap8(sum)
        s2 == IF BitAnd(BitAnd(BitXor(c.a, result), BitXor(value, result)), \h80) # 0
              THEN insert(s1, OVERFLOW) ELSE remove(s1, OVERFLOW)
    IN update_zero_and_negative_flag([c EXCEPT !.status = s2, !.a = result], result)

\* add_to_register_a, as it would be if Overflow were a change of the
\* accumulator's sign
add_to_register_a_sign_change(c, value) ==
    LET carry == IF contains(c.status, CARRY) THEN 1 ELSE 0
        sum == c.a + value + carry
        s1 == IF sum > \hFF THEN insert(c.status, CARRY) ELSE remove(c.status, CARRY)
        result == Wrap8(sum)
        s2 == IF BitAnd(BitXor(c.a, result), \h80) # 0
              THEN insert(s1, OVERFLOW) ELSE remove(s1, OVERFLOW)
    IN update_zero_and_negative_flag([c EXCEPT !.status = s2, !.a = result], result)

add_to_register_a(c, value) ==
    LET carry == IF contains(c.status, CARRY) THEN 1 ELSE 0
        sum == c.a + value + carry
        s1 == IF sum > \hFF THEN insert(c.status, CARRY) ELSE remove(c.status, CARRY)
        result == Wrap8(sum)
        s2 == IF BitAnd(BitAnd(BitXor(c.a, result), BitXor(value, result)), \h80) # 0
              THEN insert(s1, OVERFLOW) ELSE remove(s1, OVERFLOW)
    IN update_zero_and_negative_flag([c EXCEPT !.status = s2, !.a = result], result)

adc(c, addressing_mode) ==
    LET m == Operand(c, addressing_mode)
    IN Fail(add_to_register_a(c, m.val), m.fault)

\* sbc, as it would be if it added the negated operand (the complement + 1)
sbc_negated(c, addressing_mode) ==
    LET m == Operand(c, addressing_mode)
    IN Fail(add_to_register_a(c, Wrap8(U8 - m.val)), m.fault)

sbc(c, addressing_mode) ==
    LET m == Operand(c, addressing_mode)
    IN Fail(add_to_register_a(c, Not8(m.val)), m.fault)

\* branch, as it would be if it ignored its condition
branch_unconditional(c, condition) ==
    LET value == mem_read(c, c.pc)
        jump_addr == Wrap16(Wrap16(c.pc + 1) + SignExtend(value.val))
    IN Fail([c EXCEPT !.pc = jump_addr], value.fault)

\* `program_counter += 1` cannot overflow here: the read before it panics at 0xFFFF
branch(c, condition) ==
    IF condition
    THEN LET value == mem_read(c, c.pc)
             jump_addr == Wrap16(Wrap16(c.pc + 1) + SignExtend(value.val))
         IN Fail([c EXCEPT !.pc = jump_addr], value.fault)
    ELSE c

asl_accumulator(c) ==
    LET carry == (c.a \div 128) % 2
        r == Wrap8(c.a * 2)
    IN update_zero_and_negative_flag(
         [c EXCEPT !.a = r, !.status = set(@, CARRY, carry = 1)], r)

asl(c, addressing_mode) ==
    LET m == Operand(c, addressing_mode)
        carry == (m.val \div 128) % 2
        value == Wrap8(m.val * 2)
        c1 == [c EXCEPT !.status = set(@, CARRY, carry = 1)]
    IN Fail(update_zero_and_negative_flag(mem_write(c1, m.addr, value), value), m.fault)

lsr_accumulator(c) ==
    LET carry == c.a % 2
        r == c.a \div 2
    IN update_zero_and_negative_flag(
         [c EXCEPT !.a = r, !.status = set(@, CARRY, carry = 1)], r)

lsr(c, addressing_mode) ==
    LET m == Operand(c, addressing_mode)
        carry == m.val % 2
        value == m.val \div 2
        c1 == [c EXCEPT !.status = set(@, CARRY, carry = 1)]
    IN Fail(update_zero_and_negative_flag(mem_write(c1, m.addr, value), value), m.fault)

rol_accumulator(c) ==
    LET old_carry == IF contains(c.status, CARRY) THEN 1 ELSE 0
        new_carry == (c.a \div 128) % 2
        r == BitOr(Wrap8(c.a * 2), old_carry)
    IN update_zero_and_negative_flag(
         [c EXCEPT !.a = r, !.status = set(@, CARRY, new_carry = 1)], r)

\* rol, as it would be if it put 0 and not the carry into bit 0
rol_dropping_carry(c, addressing_mode) == asl(c, addressing_mode)

rol(c, addressing_mode) ==
    LET m == Operand(c, addressing_mode)
        old_carry == IF contains(c.status, CARRY) THEN 1 ELSE 0
        new_carry == (m.val \div 128) % 2
        value == BitOr(Wrap8(m.val * 2), old_carry)
        c1 == [c EXCEPT !.status = set(@, CARRY, new_carry = 1)]
    IN Fail(update_zero_and_negative_flag(mem_write(c1, m.addr, value), value), m.fault)

ror_accumulator(c) ==
    LET old_carry == IF contains(c.status, CARRY) THEN 1 ELSE 0
        new_carry == c.a % 2
        r == BitOr(c.a \div 2, old_carry * 128)
    IN update_zero_and_negative_flag(
         [c EXCEPT !.a = r, !.status = set(@, CARRY, new_carry = 1)], r)

ror(c, addressing_mode) ==
    LET m == Operand(c, addressing_mode)
        old_carry == IF contains(c.status, CARRY) THEN 1 ELSE 0
        new_carry == m.val % 2
        value == BitOr(m.val \div 2, old_carry * 128)
        c1 == [c EXCEPT !.status = set(@, CARRY, new_carry = 1)]
    IN Fail(update_zero_and_negative_flag(mem_write(c1, m.addr, value), value), m.fault)

jmp_absolute(c) ==
    LET addr == mem_read_u16(c, c.pc)
    IN Fail([c EXCEPT !.pc = addr.val], addr.fault)

\* jmp_indirect, as it would be without the page-boundary case
jmp_indirect_next_page(c) ==
    LET addr == mem_read_u16(c, c.pc)
        indirect_mem == mem_read_u16(c, addr.val)
    IN Fail([c EXCEPT !.pc = indirect_mem.val], addr.fault \/ indirect_mem.fault)

jmp_indirect(c) ==
    LET addr == mem_read_u16(c, c.pc)
        indirect_mem ==
            IF BitAnd(addr.val, \h00FF) = \h00FF
            THEN LET low == mem_read(c, addr.val)
                     high == mem_read(c, BitAnd(addr.val, \hFF00))
                 IN [val |-> high.val * U8 + low.val, fault |-> low.fault \/ high.fault]
            ELSE mem_read_u16(c, addr.val)
    IN Fail([c EXCEPT !.pc = indirect_mem.val], addr.fault \/ indirect_mem.fault)

\* stack_push, as it would be if the pointer were not taken mod 256
stack_push_unwrapped(c, data) ==
    [mem_write(c, \h0100 + c.sp, data) EXCEPT !.sp = c.sp - 1]

\* 0x0100 + stack_pointer is always in bounds
stack_push(c, data) ==
    [mem_write(c, \h0100 + c.sp, data) EXCEPT !.sp = Wrap8(c.sp + 255)]

\* stack_pop, as it would be if the pointer were not taken mod 256
stack_pop_unwrapped(c) ==
    LET sp == c.sp + 1
    IN [c |-> [c EXCEPT !.sp = sp], val |-> Cell(c.memory, \h0100 + sp)]

\* the engine after the pop, and the byte popped
stack_pop(c) ==
    LET sp == Wrap8(c.sp + 1)
    IN [c |-> [c EXCEPT !.sp = sp], val |-> Cell(c.memory, \h0100 + sp)]

\* jsr, as it would be if it pushed the low byte first
jsr_low_first(c) ==
    LET return_addr == Wrap16(Wrap16(c.pc + 2) + U16 - 1)
        high == return_addr \div U8
        low == BitAnd(return_addr, \hFF)
        c1 == stack_push(c, low)
        c2 == stack_push(c1, high)
        target_addr == mem_read_u16(c2, c2.pc)
    IN Fail([c2 EXCEPT !.pc = target_addr.val], target_addr.fault \/ c.pc + 2 >= U16)

\* `program_counter + 2 - 1` overflows for a counter of 0xFFFE or 0xFFFF: a
\* build with overflow checks panics there, one without wraps and panics at the
\* read of the operand, whose second byte is then out of bounds
jsr(c) ==
    LET return_addr == Wrap16(Wrap16(c.pc + 2) + U16 - 1)
        high == return_addr \div U8
        low == BitAnd(return_addr, \hFF)
        c1 == stack_push(c, high)
        c2 == stack_push(c1, low)
        target_addr == mem_read_u16(c2, c2.pc)
    IN Fail([c2 EXCEPT !.pc = target_addr.val], target_addr.fault \/ c.pc + 2 >= U16)

\* rts, as it would be without the + 1
rts_no_increment(c) ==
    LET low == stack_pop(c)
        high == stack_pop(low.c)
        return_addr == BitOr(high.val * U8, low.val)
    IN [high.c EXCEPT !.pc = return_addr]

rts(c) ==
    LET low == stack_pop(c)
        high == stack_pop(low.c)
        return_addr == BitOr(high.val * U8, low.val)
    IN [high.c EXCEPT !.pc = Wrap16(return_addr + 1)]

pha(c) == stack_push(c, c.a)

pla(c) ==
    LET value == stack_pop(c)
    IN update_zero_and_negative_flag([value.c EXCEPT !.a = value.val], value.val)

php(c) ==
    LET status_ == BitOr(c.status, 24)    \* status |= 0b0001_1000
    IN stack_push(c, status_)

\* restore_status_from_stack, as it would be if it kept the stored bit 4
restore_status_keep_break(c) ==
    LET popped == stack_pop(c)
        v1 == BitOr(popped.val, 32)
    IN [popped.c EXCEPT !.status = from_bits_truncate(v1)]

restore_status_from_stack(c) ==
    LET popped == stack_pop(c)
        v1 == BitOr(popped.val, 32)          \* value |= 0b0010_0000
        v2 == BitAnd(v1, Not8(16))           \* value &= !0b0001_0000
    IN [popped.c EXCEPT !.status = from_bits_truncate(v2)]

plp(c) == restore_status_from_stack(c)

clc(c) == [c EXCEPT !.status = remove(@, CARRY)]

sec(c) == [c EXCEPT !.status = insert(@, CARRY)]

cli(c) == [c EXCEPT !.status = remove(@, INTERRUPT_DISABLE)]

sei(c) == [c EXCEPT !.status = insert(@, INTERRUPT_DISABLE)]

clv(c) == [c EXCEPT !.status = remove(@, OVERFLOW)]

cld(c) == [c EXCEPT !.status = remove(@, DECIMAL_MODE)]

sed(c) == [c EXCEPT !.status = insert(@, DECIMAL_MODE)]

dec(c, addressing_mode) ==
    LET m == Operand(c, addressing_mode)
        value == Wrap8(m.val + 255)
    IN Fail(update_zero_and_negative_flag(mem_write(c, m.addr, value), value), m.fault)

inc(c, addressing_mode) ==
    LET m == Operand(c, addressing_mode)
        value == Wrap8(m.val + 1)
    IN Fail(update_zero_and_negative_flag(mem_write(c, m.addr, value), value), m.fault)

\* rti, as it would be with the + 1 of rts
rti_incremented(c) ==
    LET c1 == restore_status_from_stack(c)
        low == stack_pop(c1)
        high == stack_pop(low.c)
    IN [high.c EXCEPT !.pc = Wrap16(BitOr(high.val * U8, low.val) + 1)]

rti(c) ==
    LET c1 == restore_status_from_stack(c)
        low == stack_pop(c1)
        high == stack_pop(low.c)
    IN [high.c EXCEPT !.pc = BitOr(high.val * U8, low.val)]

tsx(c) == update_zero_and_negative_flag([c EXCEPT !.x = c.sp], c.sp)

\* txs, as it would be if it updated the flags like the other transfers
txs_updating_flags(c) == update_zero_and_negative_flag([c EXCEPT !.sp = c.x], c.x)

txs(c) == [c EXCEPT !.sp = c.x]

----------------------------------------------------------------------------
(* CPU::run: the dispatch on the fetched opcode, the break opcode aside *)

\* the arm `_ => todo!()`, as it would be if it let the loop go on
todo_skipped(c) == c

\* `_ => todo!()`: the arm of every opcode the match does not name panics
todo(c) == Fail(c, TRUE)

Execute(c, opscode) ==
    LET op == opscode.code
        mode == opscode.addr_mode
    IN CASE op \in {\hA9, \hA5, \hB5, \hAD, \hBD, \hB9, \hA1, \hB1} -> lda(c, mode)
         [] op \in {\hA0, \hA4, \hB4, \hAC, \hBC} -> ldy(c, mode)
         [] op \in {\hA2, \hA6, \hB6, \hAE, \hBE} -> ldx(c, mode)
         [] op \in {\h85, \h95, \h8D, \h9D, \h99, \h81, \h91} -> sta(c, mode)
         [] op \in {\h86, \h96, \h8E} -> stx(c, mode)
         [] op \in {\h84, \h94, \h8C} -> sty(c, mode)
         [] op \in {\h29, \h25, \h35, \h2D, \h3D, \h39, \h21, \h31} -> and(c, mode)
         [] op \in {\h49, \h45, \h55, \h4D, \h5D, \h59, \h41, \h51} -> eor(c, mode)
         [] op \in {\h09, \h05, \h15, \h0D, \h1D, \h19, \h01, \h11} -> ora(c, mode)
         [] op \in {\h24, \h2C} -> bit(c, mode)
         [] op \in {\hC9, \hC5, \hD5, \hCD, \hDD, \hD9, \hC1, \hD1} -> cmp(c, mode)
         [] op \in {\hC0, \hC4, \hCC} -> cpy(c, mode)
         [] op \in {\hE0, \hE4, \hEC} -> cpx(c, mode)
         [] op \in {\h69, \h65, \h75, \h6D, \h7D, \h79, \h61, \h71} -> adc(c, mode)
         [] op \in {\hE9, \hE5, \hF5, \hED, \hFD, \hF9, \hE1, \hF1} -> sbc(c, mode)
         [] op = \h90 -> branch(c, ~contains(c.status, CARRY))
         [] op = \hB0 -> branch(c, contains(c.status, CARRY))
         [] op = \hF0 -> branch(c, contains(c.status, ZERO))
         [] op = \hD0 -> branch(c, ~contains(c.status, ZERO))
         [] op = \h70 -> branch(c, contains(c.status, OVERFLOW))
         [] op = \h50 -> branch(c, ~contains(c.status, OVERFLOW))
         [] op = \h10 -> branch(c, ~contains(c.status, NEGATIVE))
         [] op = \h30 -> branch(c, contains(c.status, NEGATIVE))
         [] op = \h0A -> asl_accumulator(c)
         [] op \in {\h06, \h16, \h0E, \h1E} -> asl(c, mode)
         [] op = \h2A -> rol_accumulator(c)
         [] op \in {\h26, \h36, \h2E, \h3E} -> rol(c, mode)
         [] op = \h6A -> ror_accumulator(c)
         [] op \in {\h66, \h76, \h6E, \h7E} -> ror(c, mode)
         [] op \in {\hC6, \hD6, \hCE, \hDE} -> dec(c, mode)
         [] op \in {\hE6, \hF6, \hEE, \hFE} -> inc(c, mode)
         [] op = \h4A -> lsr_accumulator(c)
         [] op \in {\h46, \h56, \h4E, \h5E} -> lsr(c, mode)
         [] op = \h68 -> pla(c)
         [] op = \h08 -> php(c)
         [] op = \h28 -> plp(c)
         [] op = \hD8 -> cld(c)
         [] op = \h58 -> cli(c)
         [] op = \hB8 -> clv(c)
         [] op = \h18 -> clc(c)
         [] op = \h38 -> sec(c)
         [] op = \h78 -> sei(c)
         [] op = \hF8 -> sed(c)
         [] op = \h48 -> pha(c)
         [] op = \h4C -> jmp_absolute(c)
         [] op = \h6C -> jmp_indirect(c)
         [] op = \h20 -> jsr(c)
         [] op = \h60 -> rts(c)
         [] op = \hAA -> tax(c)
         [] op = \h8A -> txa(c)
         [] op = \hA8 -> tay(c)
         [] op = \h98 -> tya(c)
         [] op = \hE8 -> inx(c)
         [] op = \hC8 -> iny(c)
         [] op = \hCA -> dex(c)
         [] op = \h88 -> dey(c)
         [] op = \h40 -> rti(c)
         [] op = \hBA -> tsx(c)
         [] op = \h9A -> txs(c)
         [] op = \hEA -> c
         [] OTHER -> todo(c)

\* the adjustment, as it would be if it added the whole length
advance_by_length(pc, old_pc, opscode) ==
    IF old_pc = pc THEN pc + opscode.len ELSE pc

\* the counter after the loop's length adjustment, before it is cut to 16 bits
advance(pc, old_pc, opscode) ==
    IF old_pc = pc THEN pc + (opscode.len - 1) ELSE pc

----------------------------------------------------------------------------
(* CPU::reset and CPU::load *)

\* reset, as it would be if it left the flags alone
reset_keep_flags(c) ==
    LET vector == mem_read_u16(c, \hFFFC)
    IN Fail([c EXCEPT !.a = 0, !.x = 0, !.y = 0, !.pc = vector.val], vector.fault)

reset(c) ==
    LET vector == mem_read_u16(c, \hFFFC)
    IN Fail([c EXCEPT !.a = 0, !.x = 0, !.y = 0, !.status = FlagsEmpty,
                      !.pc = vector.val], vector.fault)

\* the address load copies the program to
LOAD_ADDR == \h0600

\* memory[start .. start + len].copy_from_slice(program)
copy_from_slice(c, start, program) ==
    LET slice == start .. (start + Len(program) - 1)
        byte(k) == IF k \in slice THEN program[k - start + 1] ELSE c.memory[k]
    IN [c EXCEPT !.memory =
          [k \in {j \in DOMAIN c.memory \cup slice : byte(j) # 0} |-> byte(k)]]

\* load, as it would be if it left the reset vector to the host
load_without_vector(c, program) ==
    IF LOAD_ADDR + Len(program) > MEMORY_LEN THEN Fail(c, TRUE)
    ELSE copy_from_slice(c, LOAD_ADDR, program)

\* the slice memory[0x0600 .. 0x0600 + len] panics when its end exceeds the array
load(c, program) ==
    IF LOAD_ADDR + Len(program) > MEMORY_LEN THEN Fail(c, TRUE)
    ELSE mem_write_u16(copy_from_slice(c, LOAD_ADDR, program), \hFFFC, LOAD_ADDR)

----------------------------------------------------------------------------
(* The cartridge loader (src/src/rom.rs).  A file is its 16 header bytes    *)
(* and its length; a slice of it is the offset it begins at and its length. *)

NES_TAG == <<\h4E, \h45, \h53, \h1A>>
PRG_ROM_PAGE_SIZE == 16384
CHR_ROM_PAGE_SIZE == 8192

\* raw[from..to].to_vec(): panics when the range ends beyond the file
Slice(file, from, to) ==
    [start |-> from, len |-> to - from, fault |-> to > file.len]

\* Rom::new(raw): Ok(Rom), Err(String) or a panic; file.header[i + 1] is raw[i]
Rom_new(file) ==
    LET byte(i) == file.header[i + 1]
        mapper == BitOr(BitAnd(byte(7), \hF0), byte(6) \div 16)
        ines_ver == BitAnd(byte(7) \div 4, 3)
        four_screen == BitAnd(byte(6), 8) # 0
        vertical_mirroring == BitAnd(byte(6), 1) # 0
        screen_mirroring ==
            IF four_screen THEN "FOUR_SCREEN"
            ELSE IF vertical_mirroring THEN "VERTICAL" ELSE "HORIZONTAL"
        prg_rom_size == byte(4) * PRG_ROM_PAGE_SIZE
        chr_rom_size == BitAnd(byte(5), CHR_ROM_PAGE_SIZE)
        trainer == BitAnd(byte(6), 4) # 0
        prg_rom_start == 16 + (IF trainer THEN 512 ELSE 0)
        chr_rom_start == prg_rom_start + prg_rom_size
        prg_rom == Slice(file, prg_rom_start, prg_rom_start + prg_rom_size)
        chr_rom == Slice(file, chr_rom_start, chr_rom_start + chr_rom_size)
    IN IF SubSeq(file.header, 1, 4) # NES_TAG
       THEN [result |-> "Err", message |-> "File isn't in iNES format"]
       ELSE IF ines_ver # 0
       THEN [result |-> "Err", message |-> "NES2.0 format isn't supported"]
       ELSE IF prg_rom.fault \/ chr_rom.fault
       THEN [result |-> "panic"]
       ELSE [result |-> "Ok",
             prg_rom |-> [start |-> prg_rom.start, len |-> prg_rom.len],
             chr_rom |-> [start |-> chr_rom.start, len |-> chr_rom.len],
             mapper |-> mapper,
             screen_mirroring |-> screen_mirroring]

----------------------------------------------------------------------------
(* Inputs of the host: the programs it loads and the cells it pokes *)

BranchOps == {\h90, \hB0, \hF0, \hD0, \h70, \h50, \h10, \h30}

\* the condition of a branch opcode on a flag byte (CPU::run, the branch arms)
BranchCondition(op, s) ==
    CASE op = \h90 -> ~contains(s, CARRY)
      [] op = \hB0 -> contains(s, CARRY)
      [] op = \hF0 -> contains(s, ZERO)
      [] op = \hD0 -> ~contains(s, ZERO)
      [] op = \h70 -> contains(s, OVERFLOW)
      [] op = \h50 -> ~contains(s, OVERFLOW)
      [] op = \h10 -> ~contains(s, NEGATIVE)
      [] op = \h30 -> contains(s, NEGATIVE)

\* an opcode followed by a little-endian word
Word(op, w) == <<op, w % U8, w \div U8>>

\* instruction sequences that bring the engine into a chosen state first
Prologues ==
    { <<>>,
      <<\h38>>,                             \* SEC
      <<\hA9, \h00>>,                       \* LDA #$00
      <<\hA9, \h80>>,                       \* LDA #$80
      <<\hA9, \hFF, \h48, \h28>>,           \* LDA #$FF; PHA; PLP
      <<\hA9, \h40, \h48, \h28>>,           \* LDA #$40; PHA; PLP
      <<\hA2, \h00, \h9A>>,                 \* LDX #$00; TXS
      <<\hA2, \h01, \h9A>> }                \* LDX #$01; TXS

BranchOffsets == {\h00, \h02, \h7F, \h80, \hFE, \hFF}

JumpTargets == {LOAD_ADDR + k : k \in 0..9} \cup {\hFFFE, \hFFFF}

IndirectPointers == {\h0600, \h0602, \h0604, \h05FF, \h06FF, \hFFFE}

Instructions ==
    {<<op, off>> : op \in BranchOps, off \in BranchOffsets}
    \cup {Word(\h4C, t) : t \in JumpTargets}
    \cup {Word(\h6C, p) : p \in IndirectPointers}
    \cup {Word(\h20, t) : t \in JumpTargets}
    \cup {<<op>> : op \in {\h60, \h40, \h08, \h28, \h48, \h68, \h9A, \hBA, \hEA, \h02}}

\* what follows a call: RTS, or NOP; RTS
Returns == { <<\h60>>, <<\hEA, \h60>> }

\* LDA #op; STA $FFFE; JMP $FFFE: a branch opcode in the last two cells
TopOfMemoryPrograms ==
    {<<\hA9, op, \h8D, \hFE, \hFF, \h4C, \hFE, \hFF>> : op \in {\hB0, \h90}}

\* LDA #$80; TAX; TAY; SEC: every register and a flag set before the break
RegisterPrograms == { <<\hA9, \h80, \hAA, \hA8, \h38>> }

\* LDA #$12; PHA; LDA #l; PHA; PHA; RTI: the stack holds 0x12 under l, l
InterruptReturnPrograms ==
    {<<\hA9, \h12, \h48, \hA9, l, \h48, \h48, \h40>> : l \in {\h34, \h1F}}

Programs ==
    {p \o i : p \in Prologues, i \in Instructions}
    \cup {p \o Word(\h20, t) \o r : p \in Prologues, t \in JumpTargets, r \in Returns}
    \cup {p \o <<op, \h28>> : p \in Prologues, op \in {\h08, \h48}}     \* PHP; PLP and PHA; PLP
    \cup TopOfMemoryPrograms
    \cup RegisterPrograms
    \cup InterruptReturnPrograms

\* cells and bytes of the host's own mem_write calls
HostAddrs == {\hFFFC, \hFFFF}
HostBytes == {\hB0}

----------------------------------------------------------------------------
(* The state machine *)

NoCode == -1

\* no access has been made through the bus yet
NoBusOp == [addr |-> -1, data |-> 0, before |-> [k \in {} |-> 0]]

\* no file has been handed to Rom::new yet
NoFile == [header |-> <<>>, len |-> 0]

NoSnap ==
    [pc |-> -1, a |-> 0, x |-> 0, y |-> 0, status |-> 0, sp |-> 0,
     memory |-> [k \in {} |-> 0], fault |-> FALSE]

\* CPU::new()
Init ==
    /\ program_counter = 0
    /\ register_a = 0
    /\ register_x = 0
    /\ register_y = 0
    /\ status = FlagsEmpty
    /\ stack_pointer = \hFD
    /\ memory = [k \in {} |-> 0]
    /\ loc = "idle"
    /\ code = NoCode
    /\ old_program_counter = NoCode
    /\ steps = 0
    /\ runs = 0
    /\ loaded = FALSE
    /\ last = "new"
    /\ pre = NoSnap
    /\ prev = NoSnap
    /\ cpu_vram = [k \in {} |-> 0]
    /\ bus_op = NoBusOp
    /\ raw = NoFile
    /\ rom = [result |-> "none"]
    /\ lifo = [S |-> \hFD, depth |-> 0, top |-> 0, got |-> 0]

Install(c) ==
    /\ program_counter' = c.pc
    /\ register_a' = c.a
    /\ register_x' = c.x
    /\ register_y' = c.y
    /\ status' = c.status
    /\ stack_pointer' = c.sp
    /\ memory' = c.memory

\* a panic unwinds out of the engine: nothing of it is observed afterwards
Panicked ==
    /\ loc' = "panicked"
    /\ last' = "panic"
    /\ UNCHANGED <<program_counter, register_a, register_x, register_y, status,
                   stack_pointer, memory>>

\* the host calls cpu.mem_write(addr, value) before it loads its program
HostMemWrite(addr, value) ==
    /\ loc = "idle"
    /\ UNCHANGED <<bus_vars, rom_vars, lifo>>
    /\ ~loaded
    /\ LET c == mem_write(Self, addr, value)
       IN IF c.fault THEN Panicked
          ELSE Install(c) /\ loc' = "idle" /\ last' = "mem_write"
    /\ pre' = Self
    /\ UNCHANGED <<code, old_program_counter, steps, runs, loaded, prev>>

\* the host calls cpu.load(program), once per session
Load(program) ==
    /\ loc = "idle"
    /\ UNCHANGED <<bus_vars, rom_vars, lifo>>
    /\ ~loaded
    /\ LET c == load(Self, program)
       IN IF c.fault THEN Panicked
          ELSE Install(c) /\ loc' = "idle" /\ last' = "load"
    /\ loaded' = TRUE
    /\ pre' = Self
    /\ UNCHANGED <<code, old_program_counter, steps, runs, prev>>

\* the host calls cpu.reset()
Reset ==
    /\ loc = "idle"
    /\ UNCHANGED <<bus_vars, rom_vars, lifo>>
    /\ LET c == reset(Self)
       IN IF c.fault THEN Panicked
          ELSE Install(c) /\ loc' = "idle" /\ last' = "reset"
    /\ pre' = Self
    /\ UNCHANGED <<code, old_program_counter, steps, runs, loaded, prev>>

\* the host calls cpu.run(callback): the loop is entered
Run ==
    /\ loc = "idle"
    /\ UNCHANGED <<bus_vars, rom_vars, lifo>>
    /\ runs < MaxRuns
    /\ runs' = runs + 1
    /\ loc' = "callback"
    /\ last' = "run"
    /\ code' = NoCode
    /\ old_program_counter' = NoCode
    /\ pre' = NoSnap
    /\ prev' = NoSnap
    /\ UNCHANGED <<program_counter, register_a, register_x, register_y, status,
                   stack_pointer, memory, steps, loaded>>

\* callback(self): the hook observes the engine
Callback ==
    /\ loc = "callback"
    /\ UNCHANGED <<bus_vars, rom_vars, lifo>>
    /\ loc' = "fetch"
    /\ last' = "callback"
    /\ UNCHANGED <<program_counter, register_a, register_x, register_y, status,
                   stack_pointer, memory, code, old_program_counter, steps,
                   runs, loaded, pre, prev>>

\* the opcode is read, the counter moves past it, the descriptor is looked up
\* and the counter is recorded
Fetch ==
    /\ loc = "fetch"
    /\ UNCHANGED <<bus_vars, rom_vars, lifo>>
    /\ steps < MaxSteps
    /\ steps' = steps + 1
    /\ LET byte == mem_read(Self, program_counter)
       IN IF byte.fault \/ byte.val \notin DOMAIN OPS_CODES_MAP
          THEN /\ Panicked
               /\ UNCHANGED <<code, old_program_counter, pre, prev>>
          ELSE /\ code' = byte.val
               /\ program_counter' = program_counter + 1
               /\ old_program_counter' = program_counter + 1
               /\ loc' = "dispatch"
               /\ last' = "fetch"
               /\ pre' = Self
               /\ prev' = pre
               /\ UNCHANGED <<register_a, register_x, register_y, status,
                              stack_pointer, memory>>
    /\ UNCHANGED <<runs, loaded>>

\* the dispatch, as it would be if the break opcode raised the interrupt flag
\* before it returned
Dispatch_interrupting ==
    /\ loc = "dispatch"
    /\ UNCHANGED <<bus_vars, rom_vars, lifo>>
    /\ IF code = \h00
       THEN /\ loc' = "idle"
            /\ last' = "brk"
            /\ status' = insert(status, INTERRUPT_DISABLE)
            /\ UNCHANGED <<program_counter, register_a, register_x, register_y,
                           stack_pointer, memory>>
       ELSE \E c \in {Execute(Self, OPS_CODES_MAP[code])} :
                IF c.fault THEN Panicked
                ELSE Install(c) /\ loc' = "advance" /\ last' = "dispatch"
    /\ UNCHANGED <<code, old_program_counter, steps, runs, loaded, pre, prev>>

\* the handler of the fetched opcode runs; the break opcode returns to the host
Dispatch ==
    /\ loc = "dispatch"
    /\ UNCHANGED <<bus_vars, rom_vars, lifo>>
    /\ IF code = \h00
       THEN /\ loc' = "idle"
            /\ last' = "brk"
            /\ UNCHANGED <<program_counter, register_a, register_x, register_y,
                           status, stack_pointer, memory>>
       ELSE \E c \in {Execute(Self, OPS_CODES_MAP[code])} :
                IF c.fault THEN Panicked
                ELSE Install(c) /\ loc' = "advance" /\ last' = "dispatch"
    /\ UNCHANGED <<code, old_program_counter, steps, runs, loaded, pre, prev>>

\* the end of an iteration, as it would be if the loop went on to the fetch
\* without calling the hook
AdvanceTo_skipping_hook(pc) ==
    /\ program_counter' = pc
    /\ loc' = "fetch"
    /\ last' = "advance"
    /\ UNCHANGED <<register_a, register_x, register_y, status, stack_pointer, memory>>

AdvanceTo(pc) ==
    /\ program_counter' = pc
    /\ loc' = "callback"
    /\ last' = "advance"
    /\ UNCHANGED <<register_a, register_x, register_y, status, stack_pointer, memory>>

\* an unchanged counter is moved past the operand bytes
Advance ==
    /\ loc = "advance"
    /\ UNCHANGED <<bus_vars, rom_vars, lifo>>
    /\ LET pc == advance(program_counter, old_program_counter, OPS_CODES_MAP[code])
       IN pc < U16 /\ AdvanceTo(pc)
    /\ UNCHANGED <<code, old_program_counter, steps, runs, loaded, pre, prev>>

\* `program_counter += len - 1` overflows: a build without overflow checks wraps
AdvanceWrapped ==
    /\ loc = "advance"
    /\ UNCHANGED <<bus_vars, rom_vars, lifo>>
    /\ LET pc == advance(program_counter, old_program_counter, OPS_CODES_MAP[code])
       IN pc >= U16 /\ AdvanceTo(Wrap16(pc))
    /\ UNCHANGED <<code, old_program_counter, steps, runs, loaded, pre, prev>>

\* ... and a build with overflow checks panics
AdvancePanicked ==
    /\ loc = "advance"
    /\ UNCHANGED <<bus_vars, rom_vars, lifo>>
    /\ advance(program_counter, old_program_counter, OPS_CODES_MAP[code]) >= U16
    /\ Panicked
    /\ UNCHANGED <<code, old_program_counter, steps, runs, loaded, pre, prev>>

Next ==
    \/ \E addr \in HostAddrs, value \in HostBytes : HostMemWrite(addr, value)
    \/ \E program \in Programs : Load(program)
    \/ Reset
    \/ Run
    \/ Callback
    \/ Fetch
    \/ Dispatch
    \/ Advance
    \/ AdvanceWrapped
    \/ AdvancePanicked

Spec == Init /\ [][Next]_vars

----------------------------------------------------------------------------
(* The bus on its own: the accesses of `impl Mem for CPU`, which hands      *)
(* them to CPU.bus.  Nothing of the engine proper takes part.               *)

\* addresses of the accesses: the four images of cells 0, 1 and 0x07FF, two
\* more RAM cells, the first PPU register and the first, a middle and the
\* last address above both ranges
BusAddrs ==
    {k * (RAM_MIRROR_MASK + 1) + j : k \in 0..3, j \in {\h0000, \h0001, \h07FF}}
    \cup {\h0123, \h1923, PPU_REGISTERS_START, \h4000, \h8001, \hFFFF}

BusBytes == {\h00, \h01, \hAB}

\* <CPU as Mem>::mem_write(addr, data)
BusWrite(addr, data) ==
    /\ loc = "idle"
    /\ UNCHANGED <<rom_vars, lifo>>
    /\ \E r \in {Bus_mem_write(cpu_vram, addr, data)} :
         IF r.fault
         THEN /\ loc' = "panicked"
              /\ last' = "panic"
              /\ UNCHANGED bus_vars
         ELSE /\ cpu_vram' = r.vram
              /\ bus_op' = [addr |-> addr, data |-> data, before |-> cpu_vram]
              /\ loc' = "idle"
              /\ last' = "bus_write"
    /\ UNCHANGED <<program_counter, register_a, register_x, register_y, status,
                   stack_pointer, memory, code, old_program_counter, steps,
                   runs, loaded, pre, prev>>

BusNext == \E addr \in BusAddrs, data \in BusBytes : BusWrite(addr, data)

BusSpec == Init /\ [][BusNext]_vars

----------------------------------------------------------------------------
(* The arithmetic, compare, stack, shift and rotate instructions, each run  *)
(* by the loop on operands drawn from the corners of the byte range.        *)

AluBytes == {\h00, \h01, \h40, \h7F, \h80, \hFF}

\* the operands of ADC and SBC: both sides of every sign boundary
SignBytes == AluBytes \cup {\h3F, \h41, \h7E, \h81, \hBF, \hC0, \hFE}

CLC == \h18
SEC == \h38

\* LDA #a; CLC or SEC; ADC #m
AdcPrograms ==
    {<<\hA9, a, carry, \h69, m>> : a \in SignBytes, carry \in {CLC, SEC}, m \in SignBytes}

\* LDA #a; CLC or SEC; SBC #m
SbcPrograms ==
    {<<\hA9, a, carry, \hE9, m>> : a \in SignBytes, carry \in {CLC, SEC}, m \in SignBytes}

\* the compare opcodes of CPU::run, immediate and absolute, by register
CompareOps == [a |-> {\hC9, \hCD}, x |-> {\hE0, \hEC}, y |-> {\hC0, \hCC}]

\* LDA #p; LDX #q; LDY #s; compare with an immediate byte, or with the cell
\* that holds p
ComparePrograms ==
    {<<\hA9, r, \hA2, \h55, \hA0, \hAA, \hC9, m>> : r \in AluBytes, m \in AluBytes}
    \cup {<<\hA9, \h55, \hA2, r, \hA0, \hAA, \hE0, m>> : r \in AluBytes, m \in AluBytes}
    \cup {<<\hA9, \h55, \hA2, \hAA, \hA0, r, \hC0, m>> : r \in AluBytes, m \in AluBytes}
    \cup {<<\hA9, \h7F, \hA2, r, \hA0, r, op, \h01, \h06>> :
             r \in AluBytes, op \in {\hCD, \hEC, \hCC}}

StackPointers == {\h00, \h01, \h80, \hFD, \hFF}

\* LDX #S; TXS; LDA #v; PHA or PHP; PLA
StackPrograms ==
    {<<\hA2, S, \h9A, \hA9, v, push, \h68>> :
        S \in StackPointers, v \in AluBytes, push \in {\h48, \h08}}

\* LDA #v; SEC or CLC; shift A  and  LDX #$05; LDA #v; STA $15; SEC or CLC;
\* shift $15 / $10,X / $0015 / $0010,X  for ASL, LSR, ROL, ROR
ShiftPrograms ==
    {<<\hA9, v, carry, op>> :
        v \in AluBytes, carry \in {SEC, CLC}, op \in {\h0A, \h4A, \h2A, \h6A}}
    \cup {<<\hA2, \h05, \hA9, v, \h85, \h15, carry>> \o operation :
            v \in AluBytes, carry \in {SEC, CLC},
            operation \in {<<op, \h15>> : op \in {\h06, \h46, \h26, \h66}}
                    \cup {<<op, \h10>> : op \in {\h16, \h56, \h36, \h76}}
                    \cup {<<op, \h15, \h00>> : op \in {\h0E, \h4E, \h2E, \h6E}}
                    \cup {<<op, \h10, \h00>> : op \in {\h1E, \h5E, \h3E, \h7E}}}

AluPrograms ==
    AdcPrograms \cup SbcPrograms \cup ComparePrograms \cup StackPrograms
    \cup ShiftPrograms

AluNext ==
    \/ \E program \in AluPrograms : Load(program)
    \/ Reset
    \/ Run
    \/ Callback
    \/ Fetch
    \/ Dispatch
    \/ Advance

AluSpec == Init /\ [][AluNext]_vars

----------------------------------------------------------------------------
(* The addressing modes that go through page zero, and stores followed by   *)
(* loads: the host writes a few cells with mem_write, loads a program and   *)
(* runs it (as the tests at the end of cpu.rs do).                          *)

\* the host's mem_write calls before load, in the order it makes them
Fixtures ==
    { << <<\h00FF, \h34>>, <<\h0000, \h12>>, <<\h0100, \h56>> >>,
      << <<\h0010, \h00>>, <<\h0011, \h02>>, <<\h0012, \h77>> >>,
      << <<\h00FF, \hFF>>, <<\h0000, \hFF>>, <<\h0100, \hFF>> >> }

FixtureLen == 3

\* memory after the first k calls of fixture f on a new engine
FixtureMemory(f, k) ==
    LET write(c, i) == IF i <= k THEN mem_write(c, f[i][1], f[i][2]) ELSE c
    IN write(write(write(NoSnap, 1), 2), 3).memory

\* the next mem_write call of a fixture
FixtureWrite ==
    \E f \in Fixtures, k \in 1..FixtureLen :
        /\ memory = FixtureMemory(f, k - 1)
        /\ HostMemWrite(f[k][1], f[k][2])

ZeroPageBases == {\h00, \h10, \hFF}
IndexValues == {\h00, \h02, \hFF}

\* LDX #i; LDA #$AB; STA $b,X  and  LDY #i; LDX #$AB; STX $b,Y  and the loads
\* LDX #i; LDA $b,X  and  LDY #i; LDX $b,Y
ZeroPageIndexedPrograms ==
    {<<\hA2, i, \hA9, \hAB, \h95, b>> : i \in IndexValues, b \in ZeroPageBases}
    \cup {<<\hA0, i, \hA2, \hAB, \h96, b>> : i \in IndexValues, b \in ZeroPageBases}
    \cup {<<\hA2, i, \hB5, b>> : i \in IndexValues, b \in ZeroPageBases}
    \cup {<<\hA0, i, \hB6, b>> : i \in IndexValues, b \in ZeroPageBases}

\* LDX #i; LDA #$AB; STA ($b,X)
IndirectXPrograms ==
    {<<\hA2, i, \hA9, \hAB, \h81, b>> : i \in {\h00, \h02, \h12}, b \in {\h10, \hFD, \hFF}}

\* LDY #i; LDA #$AB; STA ($b),Y
IndirectYPrograms ==
    {<<\hA0, i, \hA9, \hAB, \h91, b>> : i \in {\h00, \h01, \h02, \hFF}, b \in {\h10, \hFF}}

\* LDA #$AB; STA a; LDA a2, for two addresses of the RAM range, and
\* LDA #v; STA a; LDA #$55; LDA a, for addresses all over the address space
StoreLoadPrograms ==
    {<<\hA9, \hAB>> \o Word(\h8D, w[1]) \o Word(\hAD, w[2]) :
        w \in { <<\h0000, \h0000>>, <<\h0000, \h0800>>, <<\h0123, \h1923>>,
                <<\h07FF, \h1FFF>>, <<\h0000, \h0001>> }}
    \cup {<<\hA9, v>> \o Word(\h8D, a) \o <<\hA9, \h55>> \o Word(\hAD, a) :
            v \in {\h00, \h7F, \hAB},
            a \in {\h0010, \h2000, \h8000, \hFFFE, \hFFFF}}

AddrPrograms ==
    ZeroPageIndexedPrograms \cup IndirectXPrograms \cup IndirectYPrograms
    \cup StoreLoadPrograms

AddrNext ==
    \/ FixtureWrite
    \/ \E program \in AddrPrograms : Load(program)
    \/ Reset
    \/ Run
    \/ Callback
    \/ Fetch
    \/ Dispatch
    \/ Advance

AddrSpec == Init /\ [][AddrNext]_vars

----------------------------------------------------------------------------
(* Every opcode of the table, run by the loop after a prologue that fills   *)
(* the registers and the carry, with the operand bytes 0x10, 0x02.          *)

\* LDA #a; LDX #x; LDY #y; SEC or CLC; op $10 $02 for three register fillings,
\* and LDX #$00; TXS; LDX #$01; TSX, where the stack pointer is zero when copied
InstrPrograms ==
    LET RegisterValues ==
            { <<\h80, \h00, \h01, SEC>>, <<\h00, \h01, \h80, SEC>>,
              <<\h01, \h80, \h00, CLC>> }
        Prologues_ == {<<\hA9, r[1], \hA2, r[2], \hA0, r[3], r[4]>> : r \in RegisterValues}
    IN {p \o <<op, \h10, \h02>> : p \in Prologues_, op \in DOMAIN OPS_CODES_MAP}
       \cup { <<\hA2, \h00, \h9A, \hA2, \h01, \hBA>> }

InstrNext ==
    \/ \E program \in InstrPrograms : Load(program)
    \/ Reset
    \/ Run
    \/ Callback
    \/ Fetch
    \/ Dispatch
    \/ Advance

InstrSpec == Init /\ [][InstrNext]_vars

----------------------------------------------------------------------------
(* The loader: the host writes a few cells, loads a program and resets.     *)

\* programs from the empty one to those that reach the end of memory (NOP,
\* zeros, NOP): 0xF9FC bytes end just below the reset vector, 0xF9FD bytes run
\* into it, 0xFA00 bytes exceed the array
LoaderPrograms ==
    { <<>>, <<\hEA>>, <<\h00>>, <<\hA9, \h80>>, <<\hA9, \h80, \hAA>>,
      <<\hE8, \hE8, \hE8, \hE8>>, <<\hA9, \h00, \h8D, \h00, \h02>> }
    \cup {<<\hEA>> \o [i \in 1..(n - 2) |-> \h00] \o <<\hEA>> :
            n \in {\hF9FC, \hF9FD, \hFA00}}

LoaderNext ==
    \/ \E addr \in {LOAD_ADDR, LOAD_ADDR + 1, \hFFFC}, value \in {\hB0} :
            HostMemWrite(addr, value)
    \/ \E program \in LoaderPrograms : Load(program)
    \/ Reset

LoaderSpec == Init /\ [][LoaderNext]_vars

----------------------------------------------------------------------------
(* The cartridge loader on files with 0 to 2 program and character pages,   *)
(* with and without a trainer, complete or one byte short.                  *)

\* the files the host hands to Rom::new: header bytes 4 to 7 vary, the tag
\* is right or wrong, and the file holds what its header announces (trainer,
\* program pages, character pages) or misses its last byte
RawFiles ==
    LET content(prg, chr, flags6) ==
            (IF BitAnd(flags6, 4) # 0 THEN 512 ELSE 0)
            + prg * PRG_ROM_PAGE_SIZE + chr * CHR_ROM_PAGE_SIZE
        files ==
            {[header |-> tag \o <<prg, chr, flags6, flags7, 0, 0, 0, 0, 0, 0, 0, 0>>,
              len |-> 16 + content(prg, chr, flags6) - short] :
                tag \in {NES_TAG, <<\h4E, \h45, \h53, \h00>>},
                prg \in 0..2, chr \in 0..2,
                flags6 \in {\h00, \h01, \h04, \h08, \h15},
                flags7 \in {\h00, \h08, \h40},
                short \in 0..1}
    IN {file \in files : file.len >= 16}

\* let rom = Rom::new(&raw)
RomNew(file) ==
    /\ loc = "idle"
    /\ raw' = file
    /\ rom' = Rom_new(file)
    /\ last' = "rom_new"
    /\ UNCHANGED <<program_counter, register_a, register_x, register_y, status,
                   stack_pointer, memory, loc, code, old_program_counter, steps,
                   runs, loaded, pre, prev, bus_vars, lifo>>

RomSpec == Init /\ [][\E file \in RawFiles : RomNew(file)]_vars

----------------------------------------------------------------------------
(* The stack by itself: from a stack pointer set with TXS, stack_push is    *)
(* applied up to 256 times and then stack_pop until the stack is empty.     *)

\* the cells of page one
MaxPushes == 256

\* the i-th byte pushed: never 0, and no two of 255 in a row alike
StackByte(i) == ((i * 7) % 255) + 1

\* LDX #S; TXS on a new engine
StackStart(S) ==
    /\ loc = "idle"
    /\ last = "new"
    /\ Install(txs([Self EXCEPT !.x = S]))
    /\ lifo' = [S |-> S, depth |-> 0, top |-> 0, got |-> 0]
    /\ last' = "txs"
    /\ UNCHANGED <<loc, code, old_program_counter, steps, runs, loaded, pre, prev,
                   bus_vars, rom_vars>>

\* self.stack_push(b), while no pop has been made
StackPush ==
    /\ loc = "idle"
    /\ last \in {"txs", "stack_push"}
    /\ lifo.depth < MaxPushes
    /\ Install(stack_push(Self, StackByte(lifo.depth + 1)))
    /\ lifo' = [lifo EXCEPT !.depth = @ + 1]
    /\ last' = "stack_push"
    /\ UNCHANGED <<loc, code, old_program_counter, steps, runs, loaded, pre, prev,
                   bus_vars, rom_vars>>

\* self.stack_pop(), while something is on the stack
StackPop ==
    /\ loc = "idle"
    /\ last \in {"stack_push", "stack_pop"}
    /\ lifo.depth > 0
    /\ \E r \in {stack_pop(Self)} :
          /\ Install(r.c)
          /\ lifo' = [lifo EXCEPT !.depth = @ - 1, !.got = r.val,
                                  !.top = IF @ = 0 THEN lifo.depth ELSE @]
    /\ last' = "stack_pop"
    /\ UNCHANGED <<loc, code, old_program_counter, steps, runs, loaded, pre, prev,
                   bus_vars, rom_vars>>

StackSpec ==
    Init /\ [][\/ \E S \in {\h00, \h01, \h80, \hFD, \hFF} : StackStart(S)
               \/ StackPush
               \/ StackPop]_vars

----------------------------------------------------------------------------
(* Properties.  `pre` is the engine at the fetch of the instruction in      *)
(* `code`; last = "dispatch" is the state its handler leaves, last =        *)
(* "advance" the state at the end of the loop iteration.                    *)

\* the address of the instruction in `code`
InstrAddr == pre.pc

\* its operand byte and its little-endian operand word, as fetched
OperandByte == Cell(pre.memory, pre.pc + 1)
OperandWord == Cell(pre.memory, pre.pc + 1) + U8 * Cell(pre.memory, pre.pc + 2)

\* C1: one loop iteration that executes JMP absolute (0x4C) leaves the counter
\* equal to the operand word, whatever the operand (the address of the
\* instruction's own operand byte included).
C1_JumpReachesOperand ==
    (last = "advance" /\ code = \h4C) => program_counter = OperandWord

\* C2: one loop iteration that executes a conditional branch at A whose
\* condition holds leaves the counter at (A + 2 + sign-extended operand) mod 2^16,
\* for every operand byte.
C2_BranchTaken ==
    (last = "advance" /\ code \in BranchOps /\ BranchCondition(code, pre.status))
        => program_counter = Wrap16(InstrAddr + 2 + SignExtend(OperandByte))

\* C3: one loop iteration that executes a conditional branch at A whose
\* condition does not hold leaves the counter at A + 2 (in the counter's 16 bits)
\* and A, X, Y, the flags, the stack pointer and memory as they were.
C3_BranchNotTaken ==
    (last = "advance" /\ code \in BranchOps /\ ~BranchCondition(code, pre.status))
        => /\ program_counter = Wrap16(InstrAddr + 2)
           /\ register_a = pre.a
           /\ register_x = pre.x
           /\ register_y = pre.y
           /\ status = pre.status
           /\ stack_pointer = pre.sp
           /\ memory = pre.memory

C3_Witness ==
    /\ last = "advance"
    /\ code \in BranchOps
    /\ ~BranchCondition(code, pre.status)
    /\ OperandByte = \hFF

\* the previous instruction was a call (0x20) and the instruction in `code` is
\* the return (0x60) fetched at the call's operand
CallThenReturn ==
    /\ last = "advance"
    /\ code = \h60
    /\ prev.pc >= 0
    /\ Cell(prev.memory, prev.pc) = \h20
    /\ InstrAddr = Cell(prev.memory, prev.pc + 1) + U8 * Cell(prev.memory, prev.pc + 2)

C7_Reset ==
    last = "reset"
        => /\ register_a = 0
           /\ register_x = 0
           /\ register_y = 0
           /\ status = 0
           /\ program_counter = Cell(memory, \hFFFC) + U8 * Cell(memory, \hFFFD)

C7_Witness ==
    /\ last = "reset"
    /\ pre.a # 0 /\ pre.x # 0 /\ pre.y # 0 /\ pre.status # 0
    /\ pre.pc # program_counter
    /\ program_counter # 0

\* C8: after reset the stack pointer is 0xFD, whatever pushes, pops or
\* transfers of X into the stack pointer came before.
C8_ResetStackPointer == last = "reset" => stack_pointer = \hFD

\* C9: the handler of push-status (0x08) writes to the stack the live flag byte
\* with bit 5 and bit 4 set and every other bit as in the live flags.
C9_PushStatus ==
    (last = "dispatch" /\ code = \h08)
        => \A i \in 0..7 :
             Bit(Cell(memory, \h0100 + pre.sp), i) =
                IF i \in {4, 5} THEN 1 ELSE Bit(pre.status, i)

\* the byte pull-status pops: the cell above the stack pointer at the fetch
PulledByte == Cell(pre.memory, \h0100 + Wrap8(pre.sp + 1))

\* C10: the handler of pull-status (0x28) pops one byte b and installs as live
\* flags b with bit 5 set and bit 4 cleared, every other bit as in b.
C10_PullStatus ==
    (last = "dispatch" /\ code = \h28)
        => /\ stack_pointer = Wrap8(pre.sp + 1)
           /\ \A i \in 0..7 :
                Bit(status, i) =
                   IF i = 5 THEN 1 ELSE IF i = 4 THEN 0 ELSE Bit(PulledByte, i)

C10_Witness ==
    /\ last = "dispatch"
    /\ code = \h28
    /\ Bit(PulledByte, 4) = 1
    /\ Bit(PulledByte, 5) = 0

\* addresses read back after a bus write: six cells in each of the four images
BusReadAddrs ==
    {k * (RAM_MIRROR_MASK + 1) + j : k \in 0..3,
                                     j \in {\h0000, \h0001, \h0002, \h0123, \h07FE, \h07FF}}

\* C19: after a bus write of v to an address a in 0x0000..0x1FFF, a bus read of
\* an address in that range with the same low 11 bits returns v, and a bus read
\* of an address with different low 11 bits returns what it returned before.
C19_RamMirroring ==
    (last = "bus_write" /\ bus_op.addr \in 0..\h1FFF)
        => \A a2 \in BusReadAddrs :
              Bus_mem_read(cpu_vram, a2).val =
                 IF a2 % 2048 = bus_op.addr % 2048
                 THEN bus_op.data
                 ELSE Bus_mem_read(bus_op.before, a2).val

C19_Witness ==
    /\ last = "bus_write"
    /\ bus_op.addr = \h0000
    /\ bus_op.data = \hAB
    /\ Bus_mem_read(cpu_vram, \h1800).val = \hAB
    /\ Bus_mem_read(bus_op.before, \h1800).val = \h01
    /\ Bus_mem_read(cpu_vram, \h0801).val = \h01

\* the k-th byte above the stack pointer at the fetch: what the k-th pop returns
Popped(k) == Cell(pre.memory, \h0100 + Wrap8(pre.sp + k))

\* C11: the handler of return-from-interrupt (0x40) pops the flag byte first
\* (bit 5 set, bit 4 cleared), then the low and the high byte of an address,
\* sets the counter to exactly that address and leaves the stack pointer 3
\* higher (mod 256).
C11_ReturnFromInterrupt ==
    (last = "dispatch" /\ code = \h40)
        => /\ \A i \in 0..7 :
                Bit(status, i) =
                   IF i = 5 THEN 1 ELSE IF i = 4 THEN 0 ELSE Bit(Popped(1), i)
           /\ program_counter = Popped(2) + U8 * Popped(3)
           /\ stack_pointer = Wrap8(pre.sp + 3)

C11_Witness ==
    /\ last = "dispatch"
    /\ code = \h40
    /\ Popped(1) = \h1F
    /\ Popped(2) = \h1F
    /\ Popped(3) = \h12

\* the instruction in `code` directly follows a push (PHA 0x48 or PHP 0x08)
AfterPush ==
    /\ prev.pc >= 0
    /\ Cell(prev.memory, prev.pc) \in {\h48, \h08}
    /\ InstrAddr = prev.pc + 1

\* the byte that push stored, with the stack pointer at S = prev.sp
PushedByte == Cell(pre.memory, \h0100 + prev.sp)

\* C12: a push of v with the stack pointer at S, immediately followed by a pop,
\* returns v and leaves the stack pointer at S (S = 0x00, where the pointer
\* wraps, included).  The push is PHA (v is the accumulator) or PHP, the pop PLA.
C12_StackRoundTrip ==
    (last = "dispatch" /\ code = \h68 /\ AfterPush)
        => /\ Cell(prev.memory, prev.pc) = \h48 => PushedByte = prev.a
           /\ register_a = PushedByte
           /\ stack_pointer = prev.sp

C12_Witness ==
    /\ last = "dispatch"
    /\ code = \h68
    /\ AfterPush
    /\ prev.sp = \h00
    /\ pre.sp = \hFF
    /\ PushedByte # 0
    /\ register_a # pre.a

\* the incoming carry of the instruction in `code`
CarryIn == IF contains(pre.status, CARRY) THEN 1 ELSE 0

\* C13: the handler of add-with-carry (ADC immediate, 0x69) on accumulator a,
\* operand m and incoming carry c leaves (a + m + c) mod 256 in the
\* accumulator, Carry iff a + m + c > 255, Overflow iff a and m both differ
\* from the result in bit 7, Zero iff the result is 0, Negative = bit 7 of it.
C13_AddWithCarry ==
    (last = "dispatch" /\ code = \h69)
        => LET a == pre.a
               m == OperandByte
               sum == a + m + CarryIn
               result == sum % U8
           IN /\ register_a = result
              /\ contains(status, CARRY) <=> sum > 255
              /\ contains(status, OVERFLOW) <=>
                    (Bit(a, 7) # Bit(result, 7) /\ Bit(m, 7) # Bit(result, 7))
              /\ contains(status, ZERO) <=> result = 0
              /\ contains(status, NEGATIVE) <=> Bit(result, 7) = 1

C13_Witness ==
    /\ last = "dispatch"
    /\ code = \h69
    /\ pre.a = \h7F
    /\ OperandByte = \h01
    /\ CarryIn = 0
    /\ register_a = \h80
    /\ contains(status, OVERFLOW)
    /\ contains(status, NEGATIVE)
    /\ ~contains(status, CARRY)

\* C14: the handler of subtract-with-carry (SBC immediate, 0xE9) on
\* accumulator a, operand m and incoming carry c leaves (a - m - (1 - c)) mod 256
\* in the accumulator, Carry iff a >= m + (1 - c), Zero iff the result is 0 and
\* Negative = bit 7 of it.
C14_SubtractWithCarry ==
    (last = "dispatch" /\ code = \hE9)
        => LET a == pre.a
               m == OperandByte
               borrow == 1 - CarryIn
               result == (a - m - borrow + 2 * U8) % U8
           IN /\ register_a = result
              /\ contains(status, CARRY) <=> a >= m + borrow
              /\ contains(status, ZERO) <=> result = 0
              /\ contains(status, NEGATIVE) <=> Bit(result, 7) = 1

C14_Witness ==
    /\ last = "dispatch"
    /\ code = \hE9
    /\ pre.a = \h00
    /\ OperandByte = \h01
    /\ CarryIn = 1
    /\ register_a = \hFF
    /\ ~contains(status, CARRY)
    /\ contains(status, NEGATIVE)

\* the register a compare opcode compares, at the fetch, and its operand
ComparedRegister ==
    CASE code \in CompareOps.a -> pre.a
      [] code \in CompareOps.x -> pre.x
      [] code \in CompareOps.y -> pre.y

ComparedOperand ==
    IF code \in {\hC9, \hE0, \hC0} THEN OperandByte ELSE Cell(pre.memory, OperandWord)

\* C15: the handler of a compare (CMP, CPX, CPY; immediate or absolute) of
\* register r with operand m leaves Carry iff r >= m, Zero iff r = m,
\* Negative = bit 7 of (r - m) mod 256, and A, X, Y, the stack pointer and
\* memory as they were.
C15_Compare ==
    (last = "dispatch" /\ code \in CompareOps.a \cup CompareOps.x \cup CompareOps.y)
        => LET r == ComparedRegister
               m == ComparedOperand
           IN /\ contains(status, CARRY) <=> r >= m
              /\ contains(status, ZERO) <=> r = m
              /\ contains(status, NEGATIVE) <=> Bit((r - m + U8) % U8, 7) = 1
              /\ register_a = pre.a
              /\ register_x = pre.x
              /\ register_y = pre.y
              /\ stack_pointer = pre.sp
              /\ memory = pre.memory

C15_Witness ==
    /\ last = "dispatch"
    /\ code = \hE0
    /\ pre.x = \h01
    /\ OperandByte = \h80
    /\ pre.a # 0
    /\ pre.y # 0
    /\ contains(status, NEGATIVE)
    /\ ~contains(status, CARRY)

\* memory is as at the fetch but for cell E, which holds value
StoredAt(E, value) ==
    \A k \in DOMAIN memory \cup DOMAIN pre.memory \cup {E} :
        Cell(memory, k) = IF k = E THEN value ELSE Cell(pre.memory, k)

\* C16: with ZeroPage-X (STA 0x95, LDA 0xB5) and ZeroPage-Y (STX 0x96, LDX 0xB6)
\* addressing the cell accessed is (operand byte + index) mod 256: a store
\* changes that cell and no other, a load returns that cell.
C16_ZeroPageIndexed ==
    (last = "dispatch" /\ code \in {\h95, \h96, \hB5, \hB6})
        => LET index == IF code \in {\h95, \hB5} THEN pre.x ELSE pre.y
               E == (OperandByte + index) % U8
           IN CASE code = \h95 -> StoredAt(E, pre.a)
                [] code = \h96 -> StoredAt(E, pre.x)
                [] code = \hB5 -> register_a = Cell(pre.memory, E)
                [] code = \hB6 -> register_x = Cell(pre.memory, E)

C16_Witness ==
    /\ last = "dispatch"
    /\ code = \h95
    /\ OperandByte = \hFF
    /\ pre.x = \h02
    /\ Cell(pre.memory, \h0001) = 0
    /\ Cell(memory, \h0001) = \hAB
    /\ Cell(memory, \h0101) = 0

\* C17: with Indirect-X addressing (STA 0x81) and p = (operand byte + X) mod 256
\* the cell stored to has low byte mem[p] and high byte mem[(p + 1) mod 256].
C17_IndirectX ==
    (last = "dispatch" /\ code = \h81)
        => LET p == (OperandByte + pre.x) % U8
               E == Cell(pre.memory, p) + U8 * Cell(pre.memory, (p + 1) % U8)
           IN StoredAt(E, pre.a)

\* C18: with Indirect-Y addressing (STA 0x91) and operand byte p the cell
\* stored to is (base + Y) mod 2^16, where base has low byte mem[p] and high
\* byte mem[(p + 1) mod 256].
C18_IndirectY ==
    (last = "dispatch" /\ code = \h91)
        => LET p == OperandByte
               base == Cell(pre.memory, p) + U8 * Cell(pre.memory, (p + 1) % U8)
               E == (base + pre.y) % U16
           IN StoredAt(E, pre.a)

\* the instruction in `code` is LDA absolute (0xAD) and directly follows STA
\* absolute (0x8D), both on addresses of the RAM range with the same low 11 bits
StoreThenLoadMirrored ==
    /\ last = "dispatch"
    /\ code = \hAD
    /\ prev.pc >= 0
    /\ Cell(prev.memory, prev.pc) = \h8D
    /\ InstrAddr = prev.pc + 3
    /\ LET a == Cell(prev.memory, prev.pc + 1) + U8 * Cell(prev.memory, prev.pc + 2)
       IN /\ a \in 0..\h1FFF
          /\ OperandWord \in 0..\h1FFF
          /\ a % 2048 = OperandWord % 2048

\* C20: after STA wrote v to an address a in 0x0000..0x1FFF, LDA from an
\* address of that range with the same low 11 bits yields v.
C20_EngineThroughBus == StoreThenLoadMirrored => register_a = prev.a

----------------------------------------------------------------------------
(* C21: a byte read and a byte write through the engine's memory interface
   complete without a fault at every 16-bit address, 0xFFFF included.  The
   host's cpu.mem_write(addr, value) and the loop's read of the opcode at the
   program counter are the accesses observed: neither may end in a panic. *)
C21_EveryAddressAccessible ==
    [][((\E addr \in HostAddrs, value \in HostBytes : HostMemWrite(addr, value))
           \/ Fetch)
        => loc' # "panicked"]_vars

----------------------------------------------------------------------------
(* C22 and C23: how the loop ends *)

\* the names the table gives to the undocumented opcodes (opcodes.rs, from
\* "Unofficial codes" on): none of them has an arm in the match of CPU::run
UndocumentedNames ==
    {"*AHX", "*ALR", "*ANC", "*ARR", "*AXS", "*DCP", "*ISB", "*LAS", "*LAX",
     "*LXA", "*NOP", "*RLA", "*RRA", "*SAX", "*SBC", "*SHX", "*SHY", "*SLO",
     "*SRE", "*TAS", "*XAA"}

Undocumented ==
    {op \in DOMAIN OPS_CODES_MAP : OPS_CODES_MAP[op].name \in UndocumentedNames}

\* A, X, Y, the flags, the stack pointer and memory after the step are those
\* of the engine at the fetch
KeptSinceFetch ==
    /\ register_a' = pre.a
    /\ register_x' = pre.x
    /\ register_y' = pre.y
    /\ status' = pre.status
    /\ stack_pointer' = pre.sp
    /\ memory' = pre.memory

\* C22: a fetched opcode that the engine does not implement (every opcode has
\* a descriptor; the undocumented ones have no handler) stops the loop at that
\* instruction: the dispatch ends the loop with A, X, Y, the flags, the stack
\* pointer and memory as they were before the fetch, and once stopped nothing
\* is fetched or executed any more.
C22_UnimplementedStops ==
    [][/\ (loc = "dispatch" /\ code \in Undocumented)
            => (loc' = "panicked" /\ steps' = steps /\ KeptSinceFetch)
       /\ (loc = "panicked") => UNCHANGED vars]_vars

\* LDA #$80; LDX #$00; LDY #$01; SEC; *SAX $10: stopped at the fifth fetch,
\* with 105 undocumented opcodes in the table
C22_Witness ==
    /\ loc = "panicked"
    /\ code = \h87
    /\ code \in Undocumented
    /\ Cardinality(Undocumented) = 105
    /\ steps = 5
    /\ register_a = \h80
    /\ register_y = \h01
    /\ contains(status, CARRY)

\* the positions inside CPU::run
InLoop == {"callback", "fetch", "dispatch", "advance"}

\* C23: the break opcode (0x00) returns to the caller at once, with A, X, Y,
\* the flags, the stack pointer and memory as they were before its fetch and
\* without another fetch; and the loop returns to its caller only so.
C23_BreakReturns ==
    [][/\ (loc = "dispatch" /\ code = \h00)
            => (loc' = "idle" /\ steps' = steps /\ KeptSinceFetch)
       /\ (loc \in InLoop /\ loc' = "idle")
            => (loc = "dispatch" /\ code = \h00)]_vars

\* LDA #$80; LDX #$00; LDY #$01; SEC; BRK: returned at the fifth fetch
C23_Witness ==
    /\ loc = "idle"
    /\ last = "brk"
    /\ code = \h00
    /\ steps = 5
    /\ register_a = \h80
    /\ register_y = \h01
    /\ status = insert(FlagsEmpty, CARRY)
    /\ program_counter = pre.pc + 1

----------------------------------------------------------------------------
(* C24: store, then load, at any address *)

\* the instruction in `code` is the LDA absolute (0xAD) of a program
\* LDA #v; STA a; LDA #$55; LDA a
LoadsWhatWasStored ==
    /\ code = \hAD
    /\ InstrAddr = LOAD_ADDR + 7
    /\ Cell(pre.memory, LOAD_ADDR + 2) = \h8D
    /\ Cell(pre.memory, LOAD_ADDR + 3) + U8 * Cell(pre.memory, LOAD_ADDR + 4) = OperandWord
    /\ pre.a = \h55

\* C24: for every 16-bit address a and byte v, STA a with A = v completes and
\* leaves v in cell a, and an LDA a that follows yields A = v, Zero set iff
\* v = 0 and Negative equal to bit 7 of v.
C24_StoreLoadRoundTrip ==
    [][/\ (loc = "dispatch" /\ code = \h8D)
            => (loc' = "advance" /\ Cell(memory', OperandWord) = pre.a)
       /\ (loc = "dispatch" /\ LoadsWhatWasStored)
            => LET v == Cell(pre.memory, LOAD_ADDR + 1)
               IN /\ loc' = "advance"
                  /\ register_a' = v
                  /\ contains(status', ZERO) <=> (v = 0)
                  /\ contains(status', NEGATIVE) <=> (v >= \h80)]_vars

----------------------------------------------------------------------------
(* C25: the loader and reset *)

\* program p is in mem from 0x0600 on
ImageAt(mem, p) == \A i \in 1..Len(p) : Cell(mem, LOAD_ADDR + i - 1) = p[i]

----------------------------------------------------------------------------
(* C26: the slices of the cartridge loader *)

\* C26: when the loader accepts a file, its program slice begins at offset 16
\* (16 + 512 with the trainer bit, bit 2 of raw[6]) and has raw[4] * 16384
\* bytes, and its character slice begins right after it and has
\* raw[5] * 8192 bytes.
C26_CharacterRomSlice ==
    (last = "rom_new" /\ rom.result = "Ok")
        => /\ rom.prg_rom.start = 16 + (IF BitAnd(raw.header[7], 4) # 0 THEN 512 ELSE 0)
           /\ rom.prg_rom.len = raw.header[5] * 16384
           /\ rom.chr_rom.start = rom.prg_rom.start + rom.prg_rom.len
           /\ rom.chr_rom.len = raw.header[6] * 8192

----------------------------------------------------------------------------
(* C27: the counter after an instruction that does not transfer control *)

\* JMP absolute and indirect, JSR, RTS, RTI, BRK
ControlTransfers == {\h4C, \h6C, \h20, \h60, \h40, \h00}

\* C27: one loop iteration on an implemented instruction at A that is not a
\* jump, call, return, return from interrupt, taken branch or break ends with
\* the counter at A + its descriptor's length (in the counter's 16 bits); NOP
\* (0xEA) changes no register, flag or memory cell besides.
C27_CounterAfterInstruction ==
    (/\ last = "advance"
     /\ code \notin Undocumented
     /\ code \notin ControlTransfers
     /\ ~(code \in BranchOps /\ BranchCondition(code, pre.status)))
        => /\ program_counter = Wrap16(InstrAddr + OPS_CODES_MAP[code].len)
           /\ code = \hEA
                => /\ register_a = pre.a
                   /\ register_x = pre.x
                   /\ register_y = pre.y
                   /\ status = pre.status
                   /\ stack_pointer = pre.sp
                   /\ memory = pre.memory

\* LDA #$01; LDX #$80; LDY #$00; CLC; NOP: the NOP at 0x0607 ends at 0x0608
C27_Witness ==
    /\ last = "advance"
    /\ code = \hEA
    /\ InstrAddr = LOAD_ADDR + 7
    /\ program_counter = LOAD_ADDR + 8
    /\ register_x = \h80
    /\ steps = 5

----------------------------------------------------------------------------
(* C28: what resolving an effective address leaves alone.  The resolver is  *)
(* used by the handlers that take an addressing mode; it is observed        *)
(* through the state those handlers leave.                                  *)

\* the descriptor of the instruction in `code`
Descriptor == OPS_CODES_MAP[code]

\* its handler takes the addressing mode and resolves it (JSR, whose
\* descriptor says Absolute, reads its operand from the counter itself)
UsesResolver == Descriptor.addr_mode # "Implied" /\ Descriptor.name # "JSR"

\* the instructions whose handler writes the accumulator, and memory
WritesAccumulator == {"LDA", "AND", "EOR", "ORA", "ADC", "SBC"}
WritesMemory == {"STA", "STX", "STY", "ASL", "LSR", "ROL", "ROR", "INC", "DEC"}

\* the cells in which memory differs from memory at the fetch
ChangedCells ==
    {k \in DOMAIN memory \cup DOMAIN pre.memory : Cell(memory, k) # Cell(pre.memory, k)}

\* C28: resolving an effective address changes neither the counter, nor A, X,
\* Y, the flags, the stack pointer or memory: after the handler of an
\* instruction with an addressing mode, the counter is where the fetch left it
\* and only what the instruction itself writes differs from the engine at the
\* fetch (its register, its flags, the one cell it stores to).
C28_ResolverLeavesState ==
    (last = "dispatch" /\ UsesResolver)
        => /\ program_counter = InstrAddr + 1
           /\ stack_pointer = pre.sp
           /\ Descriptor.name \notin WritesAccumulator => register_a = pre.a
           /\ Descriptor.name # "LDX" => register_x = pre.x
           /\ Descriptor.name # "LDY" => register_y = pre.y
           /\ Descriptor.name \in {"STA", "STX", "STY"} => status = pre.status
           /\ BitAnd(status, \h3C) = BitAnd(pre.status, \h3C)
           /\ Descriptor.name \notin WritesMemory => memory = pre.memory
           /\ Cardinality(ChangedCells) <= 1

\* LDA #$80; LDX #$00; LDY #$01; SEC; STA ($10),Y: the pointer at 0x10 is 0,
\* the store goes to cell 1 and nothing else moved
C28_Witness ==
    /\ last = "dispatch"
    /\ code = \h91
    /\ UsesResolver
    /\ Descriptor.addr_mode = "Indirect_Y"
    /\ ChangedCells = {1}
    /\ Cell(memory, 1) = \h80
    /\ program_counter = LOAD_ADDR + 8

----------------------------------------------------------------------------
(* C29: which instructions leave the flags alone *)

\* Zero is set iff value is 0 and Negative is its bit 7
ZeroNegativeOf(value) ==
    /\ contains(status, ZERO) <=> (value = 0)
    /\ contains(status, NEGATIVE) <=> (value >= \h80)

\* C29: STA, STX, STY, TXS, PHA and PHP leave the flag register as it was;
\* TAX, TAY, TXA, TYA and TSX copy the source into the destination and set
\* Zero iff the destination's new value is 0 and Negative to its bit 7.
C29_FlagsOfStoresAndTransfers ==
    last = "dispatch"
        => /\ Descriptor.name \in {"STA", "STX", "STY", "TXS", "PHA", "PHP"}
                => status = pre.status
           /\ code = \hAA => (register_x = pre.a /\ ZeroNegativeOf(register_x))
           /\ code = \hA8 => (register_y = pre.a /\ ZeroNegativeOf(register_y))
           /\ code = \h8A => (register_a = pre.x /\ ZeroNegativeOf(register_a))
           /\ code = \h98 => (register_a = pre.y /\ ZeroNegativeOf(register_a))
           /\ code = \hBA => (register_x = pre.sp /\ ZeroNegativeOf(register_x))

\* LDX #$00; TXS; LDX #$01; TSX: X becomes 0 and Zero is set, after a TXS
\* that left the flags of LDX #$00 in place
C29_Witness ==
    /\ last = "dispatch"
    /\ code = \hBA
    /\ pre.x = \h01
    /\ pre.sp = \h00
    /\ ~contains(pre.status, ZERO)
    /\ register_x = \h00
    /\ contains(status, ZERO)

----------------------------------------------------------------------------
(* C30: shifts and rotates *)

\* the address a shift or rotate in memory form works on, from its operand
ShiftAddress ==
    CASE Descriptor.addr_mode = "ZeroPage" -> OperandByte
      [] Descriptor.addr_mode = "ZeroPage_X" -> (OperandByte + pre.x) % U8
      [] Descriptor.addr_mode = "Absolute" -> OperandWord
      [] Descriptor.addr_mode = "Absolute_X" -> (OperandWord + pre.x) % U16

\* the accumulator form has no addressing mode
OnAccumulator == Descriptor.addr_mode = "Implied"

\* the operand value v and the result
ShiftOperand == IF OnAccumulator THEN pre.a ELSE Cell(pre.memory, ShiftAddress)
ShiftResult == IF OnAccumulator THEN register_a ELSE Cell(memory, ShiftAddress)

\* C30: ASL, LSR, ROL and ROR, on the accumulator and on memory, with operand
\* v and incoming carry c: Carry becomes the bit shifted out (bit 7 of v to
\* the left, bit 0 to the right), the other bits move by one place, the
\* vacated bit is 0 for ASL and LSR and c for ROL and ROR, Zero and Negative
\* reflect the result, and a memory form writes the result to the address it
\* read and to no other cell.
C30_ShiftsAndRotates ==
    (last = "dispatch" /\ Descriptor.name \in {"ASL", "LSR", "ROL", "ROR"})
        => LET v == ShiftOperand
               c == CarryIn
               left == Descriptor.name \in {"ASL", "ROL"}
               vacated == IF Descriptor.name \in {"ROL", "ROR"} THEN c ELSE 0
           IN /\ contains(status, CARRY) <=> (IF left THEN v >= \h80 ELSE v % 2 = 1)
              /\ ShiftResult = IF left THEN ((2 * v) % U8) + vacated
                                       ELSE (v \div 2) + (\h80 * vacated)
              /\ ZeroNegativeOf(ShiftResult)
              /\ IF OnAccumulator
                 THEN memory = pre.memory
                 ELSE ChangedCells \subseteq {ShiftAddress} /\ register_a = pre.a

\* LDX #$05; LDA #$01; STA $15; SEC; ROR $0010,X: cell 0x15 goes from 0x01 to
\* 0x80 and Carry stays set
C30_Witness ==
    /\ last = "dispatch"
    /\ code = \h7E
    /\ pre.x = \h05
    /\ ShiftAddress = \h15
    /\ ShiftOperand = \h01
    /\ CarryIn = 1
    /\ Cell(memory, \h15) = \h80
    /\ contains(status, CARRY)
    /\ contains(status, NEGATIVE)

----------------------------------------------------------------------------
(* C31: the hook of the run loop *)

\* C31: the hook is called once in every iteration of the loop, before the
\* opcode of the iteration is fetched (the iteration that fetches the break
\* opcode included) and not between the fetch and the end of the instruction:
\* the hook's call is the one step from the top of an iteration, it is taken
\* only there (after run was entered or the previous iteration ended), it
\* leads to the fetch, and every fetch is the step right after it.
C31_HookOncePerIteration ==
    [][/\ (loc = "callback") => (last' = "callback" /\ loc' = "fetch")
       /\ (last' = "callback") => (loc = "callback" /\ last \in {"run", "advance"})
       /\ (loc = "fetch") => (last = "callback" /\ steps' = steps + 1)
       /\ (loc \in {"dispatch", "advance"}) => (last' # "callback" /\ steps' = steps)]_vars

\* the hook has been called in the iteration that is about to fetch the break
\* opcode, the fifth of the run
C31_Witness ==
    /\ loc = "fetch"
    /\ last = "callback"
    /\ steps = 4
    /\ Cell(memory, program_counter) = \h00
    /\ program_counter = LOAD_ADDR + 7

----------------------------------------------------------------------------
(* C32: push-status, then pull-status *)

\* the instruction in `code` is PLP (0x28) and directly follows PHP (0x08)
PullsWhatWasPushed ==
    /\ last = "dispatch"
    /\ code = \h28
    /\ prev.pc >= 0
    /\ Cell(prev.memory, prev.pc) = \h08
    /\ InstrAddr = prev.pc + 1

\* C32: PHP directly followed by PLP leaves Carry, Zero, InterruptDisable,
\* Decimal, Overflow and Negative each as it was before the push, whatever
\* the flags were, and the stack pointer as it was.
C32_PushPullStatus ==
    PullsWhatWasPushed
        => /\ \A f \in {CARRY, ZERO, INTERRUPT_DISABLE, DECIMAL_MODE, OVERFLOW, NEGATIVE} :
                contains(status, f) <=> contains(prev.status, f)
           /\ stack_pointer = prev.sp

----------------------------------------------------------------------------
(* C33: the stack is last-in-first-out and stays in page one *)

\* the cells of page one
PageOne == \h0100..\h01FF

\* C33: from every stack pointer S, n pushes of b1..bn (n in 1..256) followed
\* by n pops return bn..b1 and leave the stack pointer at S again; every push
\* writes a cell of page one of its own and no other cell, every pop reads
\* the cell of page one the matching push wrote and writes nothing.
C33_StackLifoInPageOne ==
    (last \in {"stack_push", "stack_pop"} /\ lifo.depth <= 256 /\ lifo.top <= 256)
        => /\ stack_pointer = (lifo.S + 256 - lifo.depth) % 256
           /\ DOMAIN memory \subseteq PageOne
           /\ last = "stack_push"
                => /\ Cardinality(DOMAIN memory) = lifo.depth
                   /\ Cell(memory, \h0100 + ((lifo.S + 257 - lifo.depth) % 256))
                        = StackByte(lifo.depth)
           /\ last = "stack_pop"
                => /\ lifo.got = StackByte(lifo.depth + 1)
                   /\ Cardinality(DOMAIN memory) = lifo.top
                   /\ lifo.depth = 0 => stack_pointer = lifo.S

\* 256 pushes from stack pointer 0x00 filled page one, and all 256 bytes
\* came back: the last pop returned the first byte pushed
C33_Witness ==
    /\ last = "stack_pop"
    /\ lifo.S = \h00
    /\ lifo.top = 256
    /\ lifo.depth = 0
    /\ lifo.got = StackByte(1)
    /\ stack_pointer = \h00
    /\ DOMAIN memory = PageOne

----------------------------------------------------------------------------
(* C34: Overflow is two's-complement overflow *)

\* the value of a byte read as a two's-complement number
Signed(v) == IF v >= 128 THEN v - 256 ELSE v

\* C34: ADC immediate (0x69) on accumulator a, operand m and incoming carry c
\* sets Overflow iff signed(a) + signed(m) + c lies outside -128..127; SBC
\* immediate (0xE9) sets it iff signed(a) - signed(m) - (1 - c) does.
C34_SignedOverflow ==
    /\ (last = "dispatch" /\ code = \h69)
          => (contains(status, OVERFLOW)
                <=> (Signed(pre.a) + Signed(OperandByte) + CarryIn) \notin -128..127)
    /\ (last = "dispatch" /\ code = \hE9)
          => (contains(status, OVERFLOW)
                <=> (Signed(pre.a) - Signed(OperandByte) - (1 - CarryIn)) \notin -128..127)

\* 0x80 - 0x01 with no borrow: -128 - 1 = -129 is out of range, the result is
\* 0x7F and Overflow is set
C34_Witness ==
    /\ last = "dispatch"
    /\ code = \hE9
    /\ pre.a = \h80
    /\ OperandByte = \h01
    /\ CarryIn = 1
    /\ register_a = \h7F
    /\ contains(status, OVERFLOW)

----------------------------------------------------------------------------
(* C35: the bus above the device registers *)

\* addresses above the RAM and the device registers that are read back
UnmappedAddrs == {\h4000, \h4001, \h47FF, \h8000, \h8001, \hFFFE, \hFFFF}

\* C35: whatever was written, a bus read of an address in 0x4000..0xFFFF
\* returns 0 without a panic, and a bus write to such an address leaves every
\* RAM cell as it was.
C35_UnmappedDefault ==
    /\ \A addr \in UnmappedAddrs :
          Bus_mem_read(cpu_vram, addr) = [val |-> 0, fault |-> FALSE]
    /\ (last = "bus_write" /\ bus_op.addr \in \h4000..\hFFFF)
          => cpu_vram = bus_op.before

\* 0xAB written to 0xFFFF while cells 0, 1 and 0x07FF hold 0x01: the cells
\* still hold 0x01 and 0xFFFF reads 0
C35_Witness ==
    /\ last = "bus_write"
    /\ bus_op.addr = \hFFFF
    /\ bus_op.data = \hAB
    /\ Cell(cpu_vram, \h0000) = \h01
    /\ Cell(cpu_vram, \h0001) = \h01
    /\ Cell(cpu_vram, \h07FF) = \h01
    /\ Bus_mem_read(cpu_vram, \hFFFF).val = 0

====
